---------------------------- MODULE Spec2Model ----------------------------
(***************************************************************************)
(* The free rigid monoidal category of discopy (rigid.py): pregroup types, *)
(* planar diagrams as lists of (box, offset) layers, snake removal         *)
(* (Diagram.normalize) and rigid functors.                                 *)
(*                                                                         *)
(* Layer indices and offsets are 0-based as in the Python source; the      *)
(* sequences that hold them are 1-based, so layer i is boxes[i + 1].       *)
(***************************************************************************)
EXTENDS Integers, Sequences, FiniteSets, TLC

VARIABLES
    self,               \* the diagram normalize() was called on
    left,               \* the left= parameter of normalize()
    diagram,            \* normalize's local: the last diagram yielded
    pc,                 \* position of the generator
    cup, cap,           \* unsnake's locals
    left_obstruction, right_obstruction, left_snake,
    n_done,             \* iterations of unsnake's loops already run
    flat_i, no_more_moves,  \* position inside the flattening pass
    round,              \* number of the normalize() run (2 = run on a normal form)
    n_yield,            \* diagrams yielded by the snake-removal loop of this run
    n_elim,             \* snakes eliminated in this run
    F,                  \* a rigid Functor: its ob and ar mappings
    diagram1, diagram2, \* the diagrams the functor is applied to
    op,                 \* the operation that combined them
    whole,              \* F(diagram1 >> diagram2), F(diagram1 @ diagram2), F(diagram1)
    parts,              \* F(diagram1) >> F(diagram2) or F(diagram1) @ F(diagram2)
    arg_left, arg_right, \* the Types a constructor or a function is called with
    call,               \* the constructor or function called, with its flags
    returned            \* what the call returned or raised

vars == <<self, left, diagram, pc, cup, cap, left_obstruction,
          right_obstruction, left_snake, n_done, flat_i, no_more_moves,
          round, n_yield, n_elim, F, diagram1, diagram2, op, whole, parts,
          arg_left, arg_right, call, returned>>

functor_vars == <<F, diagram1, diagram2, op, whole, parts>>

call_vars == <<arg_left, arg_right, call, returned>>

----------------------------------------------------------------------------
(* Bounds of the model *)

MaxLen == 4        \* layers of an enumerated input diagram
MaxDom == 1        \* wires in the domain of an enumerated input diagram
MaxWidth == 4      \* wires in any scan type of an enumerated input diagram
MaxTyLen == 2      \* objects of a type whose identity is transposed
MaxRounds == 2     \* normalize() runs in a row (the second on the result)
MaxFLen == 2       \* layers of the two diagrams a functor is applied to, together
MaxFWidth == 3     \* wires in any scan type of such a diagram
MaxArg == 2        \* objects of a Type a constructor or a function is called with
MaxHanded == 3     \* layers of an enumerated input diagram whose run is recorded

----------------------------------------------------------------------------
(* Helpers on sequences *)

Min(a, b) == IF a <= b THEN a ELSE b

Reverse(s) == [k \in 1..Len(s) |-> s[Len(s) + 1 - k]]

\* Python slice s[a:b] for 0 <= a, clipped like Python clips it
Slice(s, a, b) == SubSeq(s, a + 1, Min(b, Len(s)))

\* Python slice s[a:]
SliceFrom(s, a) == SubSeq(s, a + 1, Len(s))

----------------------------------------------------------------------------
(* rigid.Ob and rigid.Ty *)

Ob(name, z) == [name |-> name, z |-> z]

Ob_l(x) == Ob(x.name, x.z - 1)

Ob_r(x) == Ob(x.name, x.z + 1)

\* an equality that looks at the names alone
Ob_eq_names(x, y) == x.name = y.name

\* Ob.__eq__ on two rigid.Ob
Ob_eq(x, y) == <<x.name, x.z>> = <<y.name, y.z>>

\* Ob.__hash__: the value handed to hash(), the name or the pair (name, z)
Ob_hash(x) == IF x.z = 0 THEN <<x.name>> ELSE <<x.name, x.z>>

\* a left adjoint that keeps the order of the objects
Ty_l_unreversed(t) == [k \in 1..Len(t) |-> Ob_l(t[k])]

\* a Ty is the sequence of its objects
Ty_l(t) == [k \in 1..Len(t) |-> Ob_l(Reverse(t)[k])]

Ty_r(t) == [k \in 1..Len(t) |-> Ob_r(Reverse(t)[k])]

----------------------------------------------------------------------------
(* Boxes: rigid.Box, rigid.Cup, rigid.Cap *)

Box(name, dom, cod) == [kind |-> "Box", name |-> name, dom |-> dom, cod |-> cod]

Raise(error) == [kind |-> error, name |-> error, dom |-> <<>>, cod |-> <<>>]

IsError(box) == box.kind \in {"ValueError", "AxiomError"}

\* a Cup that accepts both curvatures
Cup_either_curvature(l, r) ==
    IF Len(l) # 1 \/ Len(r) # 1 THEN Raise("ValueError")
    ELSE IF Ty_r(l) # r /\ l # Ty_r(r) THEN Raise("AxiomError")
    ELSE [kind |-> "Cup", name |-> "Cup", dom |-> l \o r, cod |-> <<>>]

Cup(l, r) ==
    IF Len(l) # 1 \/ Len(r) # 1 THEN Raise("ValueError")
    ELSE IF Ty_r(l) # r /\ l # Ty_r(r) THEN Raise("AxiomError")
    ELSE IF l = Ty_r(r) THEN Raise("AxiomError")
    ELSE [kind |-> "Cup", name |-> "Cup", dom |-> l \o r, cod |-> <<>>]

\* a Cap that looks at adjointness before it looks at the lengths
Cap_adjoint_first(l, r) ==
    IF l # Ty_r(r) /\ Ty_r(l) # r THEN Raise("AxiomError")
    ELSE IF Ty_r(l) = r THEN Raise("AxiomError")
    ELSE IF Len(l) # 1 \/ Len(r) # 1 THEN Raise("ValueError")
    ELSE [kind |-> "Cap", name |-> "Cap", dom |-> <<>>, cod |-> l \o r]

Cap(l, r) ==
    IF Len(l) # 1 \/ Len(r) # 1 THEN Raise("ValueError")
    ELSE IF l # Ty_r(r) /\ Ty_r(l) # r THEN Raise("AxiomError")
    ELSE IF Ty_r(l) = r THEN Raise("AxiomError")
    ELSE [kind |-> "Cap", name |-> "Cap", dom |-> <<>>, cod |-> l \o r]

IsCup(box) == box.kind = "Cup"

IsCap(box) == box.kind = "Cap"

\* lines 411-414 and 439-442: the operands must be Types
Cup_init(left_is_ty, right_is_ty, l, r) ==
    IF ~left_is_ty \/ ~right_is_ty THEN Raise("TypeError") ELSE Cup(l, r)

Cap_init(left_is_ty, right_is_ty, l, r) ==
    IF ~left_is_ty \/ ~right_is_ty THEN Raise("TypeError") ELSE Cap(l, r)

\* self.left and self.right of a Cup, and of a Cap
Cup_left(box) == SubSeq(box.dom, 1, 1)

Cup_right(box) == SubSeq(box.dom, 2, 2)

Cap_left(box) == SubSeq(box.cod, 1, 1)

Cap_right(box) == SubSeq(box.cod, 2, 2)

\* lines 424-425: Cap(self.left, self.right)
Cup_dagger(box) == Cap(Cup_left(box), Cup_right(box))

\* lines 452-453: Cup(self.left, self.right)
Cap_dagger(box) == Cup(Cap_left(box), Cap_right(box))

----------------------------------------------------------------------------
(* Diagrams: dom, cod, boxes, offsets *)

Diagram(dom, cod, boxes, offsets) ==
    [dom |-> dom, cod |-> cod, boxes |-> boxes, offsets |-> offsets]

Id(dom) == Diagram(dom, dom, <<>>, <<>>)

\* a box seen as the one-layer diagram it is (Box.__init__)
BoxDiagram(box) == Diagram(box.dom, box.cod, <<box>>, <<0>>)

DLen(d) == Len(d.boxes)

\* d1 >> d2, defined when d1.cod = d2.dom
then(d1, d2) ==
    Diagram(d1.dom, d2.cod, d1.boxes \o d2.boxes, d1.offsets \o d2.offsets)

\* d1 @ d2
tensor(d1, d2) ==
    Diagram(d1.dom \o d2.dom, d1.cod \o d2.cod, d1.boxes \o d2.boxes,
            d1.offsets \o [k \in 1..Len(d2.offsets) |-> d2.offsets[k] + Len(d1.cod)])

\* the invariant of Diagram, from layer k on with the scan type before it:
\* every layer's domain is the slice of the scan type at its offset, the
\* layer's codomain replaces it, and the last scan type is cod
RECURSIVE WellTypedFrom(_, _, _)
WellTypedFrom(d, k, scan) ==
    IF k > DLen(d) THEN scan = d.cod
    ELSE LET box == d.boxes[k]
             off == d.offsets[k]
         IN /\ off >= 0
            /\ off + Len(box.dom) <= Len(scan)
            /\ Slice(scan, off, off + Len(box.dom)) = box.dom
            /\ WellTypedFrom(d, k + 1,
                   Slice(scan, 0, off) \o box.cod
                   \o SliceFrom(scan, off + Len(box.dom)))

WellTyped(d) ==
    /\ Len(d.boxes) = Len(d.offsets)
    /\ WellTypedFrom(d, 1, d.dom)

----------------------------------------------------------------------------
(* Errors raised instead of a diagram *)

DiagramError(error) == Diagram(<<>>, <<>>, <<Raise(error)>>, <<0>>)

IsDiagramError(d) ==
    \E k \in 1..DLen(d) :
        d.boxes[k].kind \in {"ValueError", "AxiomError", "IndexError",
                             "InterchangerError", "KeyError"}

\* d1 >> d2 with the check of Diagram.then
compose(d1, d2) ==
    IF IsDiagramError(d1) THEN d1
    ELSE IF IsDiagramError(d2) THEN d2
    ELSE IF d1.cod # d2.dom THEN DiagramError("AxiomError")
    ELSE then(d1, d2)

\* d1 @ d2, an error operand propagating
otimes(d1, d2) ==
    IF IsDiagramError(d1) THEN d1
    ELSE IF IsDiagramError(d2) THEN d2
    ELSE tensor(d1, d2)

\* a constructor's result seen as a diagram
Lift(box) == IF IsError(box) THEN DiagramError(box.kind) ELSE BoxDiagram(box)

----------------------------------------------------------------------------
(* rigid.cups, rigid.caps, Diagram.transpose *)

cup_factory(reverse, l, r) == IF reverse THEN Cap(l, r) ELSE Cup(l, r)

\* a loop that pairs the outermost objects first
RECURSIVE cups_loop_outermost_first(_, _, _, _, _)
cups_loop_outermost_first(l, r, reverse, i, result) ==
    IF i >= Len(l) THEN result
    ELSE LET j == i
             box == cup_factory(reverse, Slice(l, j, j + 1),
                                Slice(r, Len(l) - i - 1, Len(l) - i))
             layer == otimes(otimes(Id(Slice(l, 0, j)), Lift(box)),
                             Id(SliceFrom(r, Len(l) - i)))
         IN cups_loop_outermost_first(l, r, reverse, i + 1,
                      IF reverse THEN compose(layer, result)
                      ELSE compose(result, layer))

RECURSIVE cups_loop(_, _, _, _, _)
cups_loop(l, r, reverse, i, result) ==
    IF i >= Len(l) THEN result
    ELSE LET j == Len(l) - i - 1
             box == cup_factory(reverse, Slice(l, j, j + 1), Slice(r, i, i + 1))
             layer == otimes(otimes(Id(Slice(l, 0, j)), Lift(box)),
                             Id(SliceFrom(r, i + 1)))
         IN cups_loop(l, r, reverse, i + 1,
                      IF reverse THEN compose(layer, result)
                      ELSE compose(result, layer))

\* cups and caps with no check of the whole Types
nested_unchecked(l, r, reverse) == cups_loop(l, r, reverse, 0, Id(l \o r))

nested(l, r, reverse) ==
    IF Ty_r(l) # r /\ Ty_r(r) # l THEN DiagramError("AxiomError")
    ELSE cups_loop(l, r, reverse, 0, Id(l \o r))

cups(l, r) == nested(l, r, FALSE)

caps(l, r) == nested(l, r, TRUE)

transpose(d, is_left) ==
    IF is_left
    THEN compose(compose(
             otimes(Id(Ty_l(d.cod)), caps(d.dom, Ty_l(d.dom))),
             otimes(otimes(Id(Ty_l(d.cod)), d), Id(Ty_l(d.dom)))),
             otimes(cups(Ty_l(d.cod), d.cod), Id(Ty_l(d.dom))))
    ELSE compose(compose(
             otimes(caps(Ty_r(d.dom), d.dom), Id(Ty_r(d.cod))),
             otimes(otimes(Id(Ty_r(d.dom)), d), Id(Ty_r(d.cod)))),
             otimes(Id(Ty_r(d.dom)), cups(d.cod, Ty_r(d.cod))))

----------------------------------------------------------------------------
(* Diagram.interchange *)

\* the two adjacent layers i, i + 1 exchanged
interchange_adjacent(d, i, is_left) ==
    LET off0 == d.offsets[i + 1]
        off1 == d.offsets[i + 2]
        box0 == d.boxes[i + 1]
        box1 == d.boxes[i + 2]
        put(o0, o1) ==
            Diagram(d.dom, d.cod,
                    Slice(d.boxes, 0, i) \o <<box1, box0>> \o SliceFrom(d.boxes, i + 2),
                    Slice(d.offsets, 0, i) \o <<o1, o0>> \o SliceFrom(d.offsets, i + 2))
    IN IF is_left /\ off1 >= off0 + Len(box0.cod)
       THEN put(off0, off1 - Len(box0.cod) + Len(box0.dom))
       ELSE IF off0 >= off1 + Len(box1.dom)
       THEN put(off0 - Len(box1.dom) + Len(box1.cod), off1)
       ELSE IF off1 >= off0 + Len(box0.cod)
       THEN put(off0, off1 - Len(box0.cod) + Len(box0.dom))
       ELSE DiagramError("InterchangerError")

RECURSIVE interchange(_, _, _, _), interchange_many(_, _, _, _, _)
\* for k in range(count): result = result.interchange(i, i + step), i += step
interchange_many(result, i, step, count, is_left) ==
    IF count = 0 THEN result
    ELSE interchange_many(interchange(result, i, i + step, is_left),
                          i + step, step, count - 1, is_left)

interchange(d, i, j, is_left) ==
    IF IsDiagramError(d) THEN d
    ELSE IF ~(0 <= i /\ i < DLen(d)) \/ ~(0 <= j /\ j < DLen(d))
    THEN DiagramError("IndexError")
    ELSE IF i = j THEN d
    ELSE IF j < i - 1 THEN interchange_many(d, i, -1, i - j, is_left)
    ELSE IF j > i + 1 THEN interchange_many(d, i, 1, j - i, is_left)
    ELSE interchange_adjacent(d, Min(i, j), is_left)

----------------------------------------------------------------------------
(* Diagram.normalize: follow_wire and find_snake *)

\* a wire follower that does not shift the wire past a box on its left
RECURSIVE follow_wire_loop_no_shift(_, _, _, _, _)
follow_wire_loop_no_shift(d, i, j, lo, ro) ==
    IF i < DLen(d) - 1
    THEN LET i1 == i + 1
             box == d.boxes[i1 + 1]
             off == d.offsets[i1 + 1]
         IN IF off <= j /\ j < off + Len(box.dom)
            THEN [i |-> i1, j |-> j, left_obstruction |-> lo,
                  right_obstruction |-> ro]
            ELSE IF off <= j
            THEN follow_wire_loop_no_shift(d, i1, j, Append(lo, i1), ro)
            ELSE follow_wire_loop_no_shift(d, i1, j, lo, Append(ro, i1))
    ELSE [i |-> DLen(d), j |-> j, left_obstruction |-> lo,
          right_obstruction |-> ro]

\* a wire follower for which a box starting at the wire is on its right
RECURSIVE follow_wire_loop_strictly_left(_, _, _, _, _)
follow_wire_loop_strictly_left(d, i, j, lo, ro) ==
    IF i < DLen(d) - 1
    THEN LET i1 == i + 1
             box == d.boxes[i1 + 1]
             off == d.offsets[i1 + 1]
         IN IF off <= j /\ j < off + Len(box.dom)
            THEN [i |-> i1, j |-> j, left_obstruction |-> lo,
                  right_obstruction |-> ro]
            ELSE IF off < j
            THEN follow_wire_loop_strictly_left(
                     d, i1, j + Len(box.cod) - Len(box.dom), Append(lo, i1), ro)
            ELSE follow_wire_loop_strictly_left(d, i1, j, lo, Append(ro, i1))
    ELSE [i |-> DLen(d), j |-> j, left_obstruction |-> lo,
          right_obstruction |-> ro]

RECURSIVE follow_wire_loop(_, _, _, _, _)
follow_wire_loop(d, i, j, lo, ro) ==
    IF i < DLen(d) - 1
    THEN LET i1 == i + 1
             box == d.boxes[i1 + 1]
             off == d.offsets[i1 + 1]
         IN IF off <= j /\ j < off + Len(box.dom)
            THEN [i |-> i1, j |-> j, left_obstruction |-> lo,
                  right_obstruction |-> ro]
            ELSE IF off <= j
            THEN follow_wire_loop(d, i1, j + Len(box.cod) - Len(box.dom),
                                  Append(lo, i1), ro)
            ELSE follow_wire_loop(d, i1, j, lo, Append(ro, i1))
    ELSE [i |-> DLen(d), j |-> j, left_obstruction |-> lo,
          right_obstruction |-> ro]

follow_wire(d, i, j) == follow_wire_loop(d, i, j, <<>>, <<>>)

None == [found |-> FALSE, cup |-> 0, cap |-> 0, left_obstruction |-> <<>>,
         right_obstruction |-> <<>>, left_snake |-> FALSE]

\* a test that knows left snakes only
not_yankable_left_only(d, c, is_left_snake) ==
    LET wire0 == IF is_left_snake THEN d.offsets[c + 1] ELSE d.offsets[c + 1] + 1
        fw == follow_wire(d, c, wire0)
    IN \/ fw.i = DLen(d)
       \/ ~IsCup(d.boxes[fw.i + 1])
       \/ is_left_snake /\ d.offsets[fw.i + 1] + 1 # fw.j
       \/ ~is_left_snake

\* a test that takes a wire arriving at either leg of a Cup
not_yankable_any_leg(d, c, is_left_snake) ==
    LET wire0 == IF is_left_snake THEN d.offsets[c + 1] ELSE d.offsets[c + 1] + 1
        fw == follow_wire(d, c, wire0)
    IN \/ fw.i = DLen(d)
       \/ ~IsCup(d.boxes[fw.i + 1])

\* one iteration of find_snake's inner loop: is the wire of layer c yankable
not_yankable(d, c, is_left_snake) ==
    LET wire0 == IF is_left_snake THEN d.offsets[c + 1] ELSE d.offsets[c + 1] + 1
        fw == follow_wire(d, c, wire0)
    IN \/ fw.i = DLen(d)
       \/ ~IsCup(d.boxes[fw.i + 1])
       \/ is_left_snake /\ d.offsets[fw.i + 1] + 1 # fw.j
       \/ ~is_left_snake /\ d.offsets[fw.i + 1] # fw.j

yankable(d, c, is_left_snake) ==
    LET wire0 == IF is_left_snake THEN d.offsets[c + 1] ELSE d.offsets[c + 1] + 1
        fw == follow_wire(d, c, wire0)
    IN [found |-> TRUE, cup |-> fw.i, cap |-> c,
        left_obstruction |-> fw.left_obstruction,
        right_obstruction |-> fw.right_obstruction,
        left_snake |-> is_left_snake]

\* a search that gives up at the first Cap that is not yankable
RECURSIVE find_snake_from_first_cap(_, _)
find_snake_from_first_cap(d, c) ==
    IF c >= DLen(d) THEN None
    ELSE IF ~IsCap(d.boxes[c + 1]) THEN find_snake_from_first_cap(d, c + 1)
    ELSE IF ~not_yankable(d, c, TRUE) THEN yankable(d, c, TRUE)
    ELSE IF ~not_yankable(d, c, FALSE) THEN yankable(d, c, FALSE)
    ELSE None

RECURSIVE find_snake_from(_, _)
find_snake_from(d, c) ==
    IF c >= DLen(d) THEN None
    ELSE IF ~IsCap(d.boxes[c + 1]) THEN find_snake_from(d, c + 1)
    ELSE IF ~not_yankable(d, c, TRUE) THEN yankable(d, c, TRUE)
    ELSE IF ~not_yankable(d, c, FALSE) THEN yankable(d, c, FALSE)
    ELSE find_snake_from(d, c + 1)

find_snake(d) == find_snake_from(d, 0)

----------------------------------------------------------------------------
(* monoidal.Diagram.normalize: the flattening pass run after snake removal *)

\* the condition under which the pass interchanges layers i and i + 1
movable(d, i, is_left) ==
    LET box0 == d.boxes[i + 1]
        box1 == d.boxes[i + 2]
        off0 == d.offsets[i + 1]
        off1 == d.offsets[i + 2]
    IN \/ is_left /\ off1 >= off0 + Len(box0.cod)
       \/ ~is_left /\ off0 >= off1 + Len(box1.dom)

\* the first index >= i at which the for loop of the pass interchanges, or -1
RECURSIVE next_move(_, _, _)
next_move(d, i, is_left) ==
    IF i >= DLen(d) - 1 THEN -1
    ELSE IF movable(d, i, is_left) THEN i
    ELSE next_move(d, i + 1, is_left)

----------------------------------------------------------------------------
(* The diagrams normalize() is called on *)

n == <<Ob("n", 0)>>

s == <<Ob("s", 0)>>

f == Box("f", n, n)

f_dagger == Box("f[::-1]", n, n)

g == Box("g", s \o n, n)

h == Box("h", n, n \o s)

\* the generators of the enumerated diagrams
Generators ==
    {Cup(n, Ty_r(n)), Cup(Ty_l(n), n), Cap(Ty_r(n), n), Cap(n, Ty_l(n)), f}

\* the objects of the enumerated domains
DomObjects == {Ob("n", -1), Ob("n", 0), Ob("n", 1)}

\* the objects of the types whose identities are transposed
Objects == {Ob(nm, z) : nm \in {"n", "s"}, z \in -1..1}

RECURSIVE Types(_, _)
Types(objects, len) ==
    IF len = 0 THEN {<<>>}
    ELSE LET shorter == Types(objects, len - 1)
         IN shorter \cup {Append(t, x) : t \in shorter, x \in objects}

\* d >> Id(d.cod[:off]) @ box @ Id(d.cod[off + len(box.dom):])
layer_on(d, box, off) ==
    compose(d, otimes(otimes(Id(Slice(d.cod, 0, off)), BoxDiagram(box)),
                      Id(SliceFrom(d.cod, off + Len(box.dom)))))

\* Id(a @ b).transpose() and the left transpose
double_snake(a, b, is_left) == transpose(Id(<<a, b>>), is_left)

\* Id(b).transpose() @ Id(a).transpose() and the left transposes
two_snakes(a, b, is_left) ==
    otimes(transpose(Id(<<b>>), is_left), transpose(Id(<<a>>), is_left))

\* g @ cap >> f[::-1] @ Id(n.r) @ f >> cup @ h of normalize's docstring
docstring_diagram ==
    compose(compose(
        otimes(BoxDiagram(g), Lift(Cap(Ty_r(n), n))),
        otimes(otimes(BoxDiagram(f_dagger), Id(Ty_r(n))), BoxDiagram(f))),
        otimes(Lift(Cup(n, Ty_r(n))), BoxDiagram(h)))

----------------------------------------------------------------------------
(* A diagram is built, then Diagram.normalize runs on it as a generator:   *)
(* one action per resumption step                                          *)

Init ==
    /\ self \in {Id(t) : t \in Types(Objects, MaxTyLen)}
    /\ left = FALSE
    /\ diagram = self
    /\ pc = "build"
    /\ cup = 0
    /\ cap = 0
    /\ left_obstruction = <<>>
    /\ right_obstruction = <<>>
    /\ left_snake = FALSE
    /\ n_done = 0
    /\ flat_i = 0
    /\ no_more_moves = TRUE
    /\ round = 1
    /\ n_yield = 0
    /\ n_elim = 0
    /\ F = [ob |-> <<>>, ar |-> <<>>]
    /\ diagram1 = Id(<<>>)
    /\ diagram2 = Id(<<>>)
    /\ op = "none"
    /\ whole = Id(<<>>)
    /\ parts = Id(<<>>)
    /\ arg_left = <<>>
    /\ arg_right = <<>>
    /\ call = "none"
    /\ returned = <<>>

unsnake_locals == <<cup, cap, left_obstruction, right_obstruction, left_snake, n_done>>

normalize_locals == <<unsnake_locals, flat_i, no_more_moves, round, n_yield, n_elim>>

\* self >> Id @ box @ Id, for a generator that fits the codomain
BuildLayer ==
    /\ pc = "build"
    /\ DLen(self) < MaxLen
    /\ Len(self.dom) <= MaxDom
    /\ \A k \in 1..Len(self.dom) : self.dom[k] \in DomObjects
    /\ \E box \in Generators, off \in 0..Len(self.cod) :
          LET d == layer_on(self, box, off)
          IN /\ ~IsDiagramError(d)
             /\ Len(d.cod) <= MaxWidth
             /\ self' = d
             /\ diagram' = d
    /\ UNCHANGED <<left, pc, normalize_locals>>
    /\ UNCHANGED <<functor_vars, call_vars>>

\* self.transpose(left=is_left) of an identity
BuildTranspose ==
    /\ pc = "build"
    /\ DLen(self) = 0
    /\ \E is_left \in BOOLEAN :
          /\ self' = transpose(self, is_left)
          /\ diagram' = self'
    /\ pc' = "built"
    /\ UNCHANGED <<left, normalize_locals>>
    /\ UNCHANGED <<functor_vars, call_vars>>

\* Id(b).transpose() @ Id(a).transpose() from Id(a @ b)
BuildTwoSnakes ==
    /\ pc = "build"
    /\ DLen(self) = 0
    /\ Len(self.dom) = 2
    /\ \E is_left \in BOOLEAN :
          /\ self' = two_snakes(self.dom[1], self.dom[2], is_left)
          /\ diagram' = self'
    /\ pc' = "built"
    /\ UNCHANGED <<left, normalize_locals>>
    /\ UNCHANGED <<functor_vars, call_vars>>

\* the diagram of normalize's docstring, on its domain s @ n
BuildDocstring ==
    /\ pc = "build"
    /\ self = Id(s \o n)
    /\ self' = docstring_diagram
    /\ diagram' = self'
    /\ pc' = "built"
    /\ UNCHANGED <<left, normalize_locals>>
    /\ UNCHANGED <<functor_vars, call_vars>>

\* box @ self or self @ box for a generator, on a diagram built in one go
BuildTensor ==
    /\ pc = "built"
    /\ \E box \in Generators, on_left \in BOOLEAN :
          /\ self' = IF on_left THEN otimes(BoxDiagram(box), self)
                                ELSE otimes(self, BoxDiagram(box))
          /\ diagram' = self'
    /\ pc' = "tensored"
    /\ UNCHANGED <<left, normalize_locals>>
    /\ UNCHANGED <<functor_vars, call_vars>>

\* self.normalize(left=is_left) is called
Normalize ==
    /\ pc \in {"build", "built", "tensored"}
    /\ left' \in BOOLEAN
    /\ pc' = "find"
    /\ UNCHANGED <<self, diagram, normalize_locals>>
    /\ UNCHANGED <<functor_vars, call_vars>>

\* lines 353-356: yankable = find_snake(diagram)
FindSnake_step ==
    /\ pc = "find"
    /\ LET found == find_snake(diagram)
       IN IF found.found
          THEN /\ pc' = "unsnake"
               /\ cup' = found.cup
               /\ cap' = found.cap
               /\ left_obstruction' = found.left_obstruction
               /\ right_obstruction' = found.right_obstruction
               /\ left_snake' = found.left_snake
               /\ n_done' = 0
               /\ UNCHANGED <<flat_i, no_more_moves>>
          ELSE /\ pc' = "flatten"
               /\ flat_i' = 0
               /\ no_more_moves' = TRUE
               /\ UNCHANGED unsnake_locals
    /\ UNCHANGED <<self, left, diagram, round, n_yield, n_elim>>

FindSnake == FindSnake_step /\ UNCHANGED <<functor_vars, call_vars>>

\* the outcome of one interchange of unsnake: the diagram yielded, or the
\* exception that ends the generator
Yield(d) ==
    IF IsDiagramError(d)
    THEN /\ pc' = "error"
         /\ UNCHANGED <<diagram, n_yield>>
    ELSE /\ pc' = "unsnake"
         /\ diagram' = d
         /\ n_yield' = n_yield + 1

\* a re-indexing that forgets the boxes the obstruction went past
reindex_below_stale(obstructions, box) == obstructions

\* lines 327-329: the right obstructions above the box moved go down by one
reindex_below(obstructions, box) ==
    [i \in 1..Len(obstructions) |->
        IF obstructions[i] < box THEN obstructions[i] + 1 ELSE obstructions[i]]

\* a re-indexing that forgets the boxes that went down past the obstruction
reindex_above_stale(obstructions, box) == obstructions

\* lines 339-341: the right obstructions below the box moved go up by one
reindex_above(obstructions, box) ==
    [i \in 1..Len(obstructions) |->
        IF obstructions[i] > box THEN obstructions[i] - 1 ELSE obstructions[i]]

\* lines 324-330: a left obstruction of a left snake goes above the Cap
UnsnakeLeftCap_step ==
    /\ pc = "unsnake" /\ left_snake
    /\ n_done < Len(left_obstruction)
    /\ LET box == left_obstruction[n_done + 1]
       IN /\ Yield(interchange(diagram, box, cap, FALSE))
          /\ right_obstruction' = reindex_below(right_obstruction, box)
    /\ cap' = cap + 1
    /\ n_done' = n_done + 1
    /\ UNCHANGED <<self, left, cup, left_obstruction, left_snake, flat_i,
                   no_more_moves, round, n_elim>>

UnsnakeLeftCap == UnsnakeLeftCap_step /\ UNCHANGED <<functor_vars, call_vars>>

\* a loop that forgets that the Cup went up
UnsnakeLeftCup_keeps_cup ==
    /\ pc = "unsnake" /\ left_snake
    /\ n_done >= Len(left_obstruction)
    /\ n_done < Len(left_obstruction) + Len(right_obstruction)
    /\ LET box == Reverse(right_obstruction)[n_done - Len(left_obstruction) + 1]
       IN Yield(interchange(diagram, box, cup, FALSE))
    /\ n_done' = n_done + 1
    /\ UNCHANGED <<self, left, cup, cap, left_obstruction, right_obstruction,
                   left_snake, flat_i, no_more_moves, round, n_elim>>

\* lines 331-334: a right obstruction of a left snake goes below the Cup
UnsnakeLeftCup_step ==
    /\ pc = "unsnake" /\ left_snake
    /\ n_done >= Len(left_obstruction)
    /\ n_done < Len(left_obstruction) + Len(right_obstruction)
    /\ LET box == Reverse(right_obstruction)[n_done - Len(left_obstruction) + 1]
       IN Yield(interchange(diagram, box, cup, FALSE))
    /\ cup' = cup - 1
    /\ n_done' = n_done + 1
    /\ UNCHANGED <<self, left, cap, left_obstruction, right_obstruction,
                   left_snake, flat_i, no_more_moves, round, n_elim>>

UnsnakeLeftCup == UnsnakeLeftCup_step /\ UNCHANGED <<functor_vars, call_vars>>

\* lines 336-342: a left obstruction of a right snake goes below the Cup
UnsnakeRightCup_step ==
    /\ pc = "unsnake" /\ ~left_snake
    /\ n_done < Len(left_obstruction)
    /\ LET box == Reverse(left_obstruction)[n_done + 1]
       IN /\ Yield(interchange(diagram, box, cup, FALSE))
          /\ right_obstruction' = reindex_above(right_obstruction, box)
    /\ cup' = cup - 1
    /\ n_done' = n_done + 1
    /\ UNCHANGED <<self, left, cap, left_obstruction, left_snake, flat_i,
                   no_more_moves, round, n_elim>>

UnsnakeRightCup == UnsnakeRightCup_step /\ UNCHANGED <<functor_vars, call_vars>>

\* lines 343-346: a right obstruction of a right snake goes above the Cap
UnsnakeRightCap_step ==
    /\ pc = "unsnake" /\ ~left_snake
    /\ n_done >= Len(left_obstruction)
    /\ n_done < Len(left_obstruction) + Len(right_obstruction)
    /\ LET box == right_obstruction[n_done - Len(left_obstruction) + 1]
       IN Yield(interchange(diagram, box, cap, FALSE))
    /\ cap' = cap + 1
    /\ n_done' = n_done + 1
    /\ UNCHANGED <<self, left, cup, left_obstruction, right_obstruction,
                   left_snake, flat_i, no_more_moves, round, n_elim>>

UnsnakeRightCap == UnsnakeRightCap_step /\ UNCHANGED <<functor_vars, call_vars>>

\* a splice that cuts from the Cup on, keeping the Cup
splice_keeps_cup(d, cup_index, cap_index) ==
    Diagram(d.dom, d.cod,
            Slice(d.boxes, 0, cap_index) \o SliceFrom(d.boxes, cup_index),
            Slice(d.offsets, 0, cap_index) \o SliceFrom(d.offsets, cup_index))

\* a splice that cuts out the Cap alone when the Cup is not right below it
splice_one(d, cup_index, cap_index) ==
    Diagram(d.dom, d.cod,
            Slice(d.boxes, 0, cap_index) \o SliceFrom(d.boxes, cap_index + 1),
            Slice(d.offsets, 0, cap_index) \o SliceFrom(d.offsets, cap_index + 1))

\* lines 347-350: the Cap and the Cup are cut out
splice(d, cup_index, cap_index) ==
    Diagram(d.dom, d.cod,
            Slice(d.boxes, 0, cap_index) \o SliceFrom(d.boxes, cup_index + 1),
            Slice(d.offsets, 0, cap_index) \o SliceFrom(d.offsets, cup_index + 1))

\* a loop that removes one snake and goes on to the flattening pass
UnsnakeSpliceOnce ==
    /\ pc = "unsnake"
    /\ n_done = Len(left_obstruction) + Len(right_obstruction)
    /\ diagram' = splice(diagram, cup, cap)
    /\ n_yield' = n_yield + 1
    /\ n_elim' = n_elim + 1
    /\ pc' = "flatten"
    /\ flat_i' = 0
    /\ no_more_moves' = TRUE
    /\ UNCHANGED <<self, left, unsnake_locals, round>>
    /\ UNCHANGED <<functor_vars, call_vars>>

UnsnakeSplice_step ==
    /\ pc = "unsnake"
    /\ n_done = Len(left_obstruction) + Len(right_obstruction)
    /\ diagram' = splice(diagram, cup, cap)
    /\ n_yield' = n_yield + 1
    /\ n_elim' = n_elim + 1
    /\ pc' = "find"
    /\ UNCHANGED <<self, left, unsnake_locals, flat_i, no_more_moves, round>>

UnsnakeSplice == UnsnakeSplice_step /\ UNCHANGED <<functor_vars, call_vars>>

\* line 360: the flattening pass runs to the next diagram it yields
FlattenYield_step ==
    /\ pc = "flatten"
    /\ next_move(diagram, flat_i, left) # -1
    /\ LET i == next_move(diagram, flat_i, left)
       IN /\ diagram' = interchange(diagram, i, i + 1, left)
          /\ flat_i' = i + 1
    /\ no_more_moves' = FALSE
    /\ UNCHANGED <<self, left, pc, unsnake_locals, round, n_yield, n_elim>>

FlattenYield == FlattenYield_step /\ UNCHANGED <<functor_vars, call_vars>>

\* the for loop of the pass ends: another pass, or the generator is exhausted
FlattenPassEnd_step ==
    /\ pc = "flatten"
    /\ next_move(diagram, flat_i, left) = -1
    /\ IF no_more_moves
       THEN pc' = "done" /\ UNCHANGED <<flat_i, no_more_moves>>
       ELSE pc' = "flatten" /\ flat_i' = 0 /\ no_more_moves' = TRUE
    /\ UNCHANGED <<self, left, diagram, unsnake_locals, round, n_yield, n_elim>>

FlattenPassEnd == FlattenPassEnd_step /\ UNCHANGED <<functor_vars, call_vars>>

\* normal_form() is called on the diagram normal_form() returned
NormalizeAgain ==
    /\ pc = "done"
    /\ round < MaxRounds
    /\ self' = diagram
    /\ pc' = "find"
    /\ round' = round + 1
    /\ n_yield' = 0
    /\ n_elim' = 0
    /\ UNCHANGED <<left, diagram, unsnake_locals, flat_i, no_more_moves>>
    /\ UNCHANGED <<functor_vars, call_vars>>

Next ==
    \/ BuildLayer
    \/ BuildTranspose
    \/ BuildTwoSnakes
    \/ BuildDocstring
    \/ BuildTensor
    \/ Normalize
    \/ FindSnake
    \/ UnsnakeLeftCap
    \/ UnsnakeLeftCup
    \/ UnsnakeRightCup
    \/ UnsnakeRightCap
    \/ UnsnakeSplice
    \/ FlattenYield
    \/ FlattenPassEnd
    \/ NormalizeAgain

Spec == Init /\ [][Next]_vars

----------------------------------------------------------------------------
(* d.normalize() consumed as a generator by a caller that keeps every      *)
(* diagram it is handed (returned), and that may at any point start a      *)
(* fresh d.normalize(): the diagrams of the abandoned generator are then   *)
(* in arg_left, and where it stood in arg_right                            *)

\* self >> Id @ box @ Id on a diagram short enough to be recorded
BuildShort ==
    /\ DLen(self) < MaxHanded
    /\ BuildLayer

\* next(generator) hands the caller a diagram, or runs without yielding
Handed(yielded) ==
    /\ returned' = IF yielded THEN Append(returned, diagram') ELSE returned
    /\ UNCHANGED <<functor_vars, arg_left, arg_right, call>>

ResumeFindSnake ==
    /\ FindSnake_step
    /\ Handed(FALSE)

ResumeUnsnakeLeftCap ==
    /\ UnsnakeLeftCap_step
    /\ Handed(pc' # "error")

ResumeUnsnakeLeftCup ==
    /\ UnsnakeLeftCup_step
    /\ Handed(pc' # "error")

ResumeUnsnakeRightCup ==
    /\ UnsnakeRightCup_step
    /\ Handed(pc' # "error")

ResumeUnsnakeRightCap ==
    /\ UnsnakeRightCap_step
    /\ Handed(pc' # "error")

ResumeUnsnakeSplice ==
    /\ UnsnakeSplice_step
    /\ Handed(TRUE)

ResumeFlattenYield ==
    /\ FlattenYield_step
    /\ Handed(TRUE)

ResumeFlattenPassEnd ==
    /\ FlattenPassEnd_step
    /\ Handed(FALSE)

Running == pc \in {"find", "unsnake", "flatten", "done", "error"}

\* a fresh generator that goes on from the diagram yielded last
RestartFromLast ==
    /\ Running
    /\ call = "none"
    /\ call' = "again"
    /\ arg_left' = returned
    /\ returned' = <<>>
    /\ pc' = "find"
    /\ cup' = 0
    /\ cap' = 0
    /\ left_obstruction' = <<>>
    /\ right_obstruction' = <<>>
    /\ left_snake' = FALSE
    /\ n_done' = 0
    /\ n_yield' = 0
    /\ n_elim' = 0
    /\ UNCHANGED <<self, left, diagram, flat_i, no_more_moves, round>>
    /\ arg_right' = <<pc>>
    /\ UNCHANGED functor_vars

\* the generator is abandoned after a prefix and self.normalize(left) is
\* called again: line 352, diagram = self, with fresh locals
Restart ==
    /\ Running
    /\ call = "none"
    /\ call' = "again"
    /\ arg_left' = returned
    /\ returned' = <<>>
    /\ diagram' = self
    /\ pc' = "find"
    /\ cup' = 0
    /\ cap' = 0
    /\ left_obstruction' = <<>>
    /\ right_obstruction' = <<>>
    /\ left_snake' = FALSE
    /\ n_done' = 0
    /\ n_yield' = 0
    /\ n_elim' = 0
    /\ UNCHANGED <<self, left, flat_i, no_more_moves, round>>
    /\ arg_right' = <<pc>>
    /\ UNCHANGED functor_vars

NextN ==
    \/ BuildShort
    \/ BuildTranspose
    \/ BuildTwoSnakes
    \/ BuildDocstring
    \/ Normalize
    \/ ResumeFindSnake
    \/ ResumeUnsnakeLeftCap
    \/ ResumeUnsnakeLeftCup
    \/ ResumeUnsnakeRightCup
    \/ ResumeUnsnakeRightCap
    \/ ResumeUnsnakeSplice
    \/ ResumeFlattenYield
    \/ ResumeFlattenPassEnd
    \/ Restart

SpecN == Init /\ [][NextN]_vars

\* the same caller on the longer diagrams, consuming one generator
NextU ==
    \/ BuildLayer
    \/ BuildTranspose
    \/ BuildTwoSnakes
    \/ BuildDocstring
    \/ Normalize
    \/ ResumeFindSnake
    \/ ResumeUnsnakeLeftCap
    \/ ResumeUnsnakeLeftCup
    \/ ResumeUnsnakeRightCup
    \/ ResumeUnsnakeRightCap
    \/ ResumeUnsnakeSplice
    \/ ResumeFlattenYield
    \/ ResumeFlattenPassEnd

SpecU == Init /\ [][NextU]_vars

----------------------------------------------------------------------------
(* rigid.Functor.__call__ *)

\* an object image that forgets the winding number of the object
adjoint_unshifted(ob, obj) == ob[obj.name]

\* an adjoint taken once whatever the winding number
adjoint_loop_once(result, z) ==
    IF z < 0 THEN Ty_l(result)
    ELSE IF z > 0 THEN Ty_r(result)
    ELSE result

\* lines 483-488: result.l taken -z times, or result.r taken z times
RECURSIVE adjoint_loop(_, _)
adjoint_loop(result, z) ==
    IF z < 0 THEN adjoint_loop(Ty_l(result), z + 1)
    ELSE IF z > 0 THEN adjoint_loop(Ty_r(result), z - 1)
    ELSE result

\* lines 481-488: the image of the object at z = 0, then its adjoints
adjoint(ob, obj) == adjoint_loop(ob[obj.name], obj.z)

\* line 489: the tensor of the images of the objects
RECURSIVE Functor_ty(_, _)
Functor_ty(fun, t) ==
    IF t = <<>> THEN <<>>
    ELSE adjoint(fun.ob, Head(t)) \o Functor_ty(fun, Tail(t))

\* a functor that looks every box up in ar, Cup and Cap too
Functor_box_lookup(fun, box) ==
    IF box \in DOMAIN fun.ar THEN fun.ar[box] ELSE DiagramError("KeyError")

\* lines 490-495 for Cup and Cap, self.ar[box] for the other boxes
Functor_box(fun, box) ==
    IF IsCup(box)
    THEN cups(Functor_ty(fun, Slice(box.dom, 0, 1)),
              Functor_ty(fun, SliceFrom(box.dom, 1)))
    ELSE IF IsCap(box)
    THEN caps(Functor_ty(fun, Slice(box.cod, 0, 1)),
              Functor_ty(fun, SliceFrom(box.cod, 1)))
    ELSE IF box \in DOMAIN fun.ar THEN fun.ar[box]
    ELSE DiagramError("KeyError")

\* id(F(scan[:off])) @ F(box) @ id(F(scan[off + len(box.dom):]))
layer_image(fun, scan, box, off) ==
    otimes(otimes(Id(Functor_ty(fun, Slice(scan, 0, off))), Functor_box(fun, box)),
           Id(Functor_ty(fun, SliceFrom(scan, off + Len(box.dom)))))

\* lines 496-497: the layers of the diagram, one after the other
RECURSIVE Functor_layers(_, _, _, _, _)
Functor_layers(fun, d, k, scan, result) ==
    IF k > DLen(d) THEN result
    ELSE LET box == d.boxes[k]
             off == d.offsets[k]
         IN Functor_layers(fun, d, k + 1,
                Slice(scan, 0, off) \o box.cod \o SliceFrom(scan, off + Len(box.dom)),
                compose(result, layer_image(fun, scan, box, off)))

Functor_call(fun, d) ==
    Functor_layers(fun, d, 1, d.dom, Id(Functor_ty(fun, d.dom)))

----------------------------------------------------------------------------
(* The functors and the diagrams they are applied to *)

\* the images of n; s goes to itself
ObImages == {<<>>, n, <<Ob("n", 0), Ob("s", 1)>>}

\* the boxes that may have an entry in ar; the entry of the Cup is never read
ArKeys == {f, h, Cup(n, Ty_r(n))}

\* a box with the domain and codomain a functor needs of the image
box_image(ob, box) ==
    LET fun == [ob |-> ob, ar |-> <<>>]
    IN BoxDiagram(Box(box.name, Functor_ty(fun, box.dom), Functor_ty(fun, box.cod)))

Functors ==
    {[ob |-> [nm \in {"n", "s"} |-> IF nm = "n" THEN image ELSE s],
      ar |-> [box \in keys |->
                 box_image([nm \in {"n", "s"} |-> IF nm = "n" THEN image ELSE s], box)]] :
        image \in ObImages, keys \in {{}, ArKeys}}

FGenerators ==
    {Cup(n, Ty_r(n)), Cup(Ty_l(n), n), Cap(Ty_r(n), n), Cap(n, Ty_l(n)), f, h}

\* the domains of the diagrams
FDoms == {<<>>, n, n \o Ty_r(n), Ty_l(n) \o n}

normalize_vars == <<self, left, diagram, pc, normalize_locals>>

InitF ==
    /\ F \in Functors
    /\ diagram1 \in {Id(t) : t \in FDoms}
    /\ diagram2 = Id(<<>>)
    /\ op = "first"
    /\ whole = Id(<<>>)
    /\ parts = Id(<<>>)
    /\ arg_left = <<>>
    /\ arg_right = <<>>
    /\ call = "none"
    /\ returned = <<>>
    /\ self = Id(<<>>)
    /\ left = FALSE
    /\ diagram = self
    /\ pc = "idle"
    /\ cup = 0
    /\ cap = 0
    /\ left_obstruction = <<>>
    /\ right_obstruction = <<>>
    /\ left_snake = FALSE
    /\ n_done = 0
    /\ flat_i = 0
    /\ no_more_moves = TRUE
    /\ round = 1
    /\ n_yield = 0
    /\ n_elim = 0

\* the layers a generator can be put on d as
layers_on(d) ==
    {layer_on(d, box, off) : box \in FGenerators, off \in 0..Len(d.cod)}

\* diagram1 >> Id @ box @ Id
Layer1 ==
    /\ op = "first"
    /\ DLen(diagram1) + DLen(diagram2) < MaxFLen
    /\ \E d \in layers_on(diagram1) :
          /\ ~IsDiagramError(d)
          /\ Len(d.cod) <= MaxFWidth
          /\ diagram1' = d
    /\ UNCHANGED <<F, diagram2, op, whole, parts, normalize_vars, call_vars>>

\* the second diagram starts on the codomain of the first, or on its own
Second ==
    /\ op = "first"
    /\ \E t \in {diagram1.cod, <<>>, n} : diagram2' = Id(t)
    /\ op' = "second"
    /\ UNCHANGED <<F, diagram1, whole, parts, normalize_vars, call_vars>>

\* diagram2 >> Id @ box @ Id
Layer2 ==
    /\ op = "second"
    /\ DLen(diagram1) + DLen(diagram2) < MaxFLen
    /\ \E d \in layers_on(diagram2) :
          /\ ~IsDiagramError(d)
          /\ Len(d.cod) <= MaxFWidth
          /\ diagram2' = d
    /\ UNCHANGED <<F, diagram1, op, whole, parts, normalize_vars, call_vars>>

\* F(diagram1)
Apply ==
    /\ op = "first"
    /\ whole' = Functor_call(F, diagram1)
    /\ op' = "call"
    /\ UNCHANGED <<F, diagram1, diagram2, parts, normalize_vars, call_vars>>

\* F(diagram1 >> diagram2) and F(diagram1) >> F(diagram2)
ApplyThen ==
    /\ op = "second"
    /\ diagram1.cod = diagram2.dom
    /\ whole' = Functor_call(F, then(diagram1, diagram2))
    /\ parts' = compose(Functor_call(F, diagram1), Functor_call(F, diagram2))
    /\ op' = "then"
    /\ UNCHANGED <<F, diagram1, diagram2, normalize_vars, call_vars>>

\* F(diagram1 @ diagram2) and F(diagram1) @ F(diagram2)
ApplyTensor ==
    /\ op = "second"
    /\ whole' = Functor_call(F, tensor(diagram1, diagram2))
    /\ parts' = otimes(Functor_call(F, diagram1), Functor_call(F, diagram2))
    /\ op' = "tensor"
    /\ UNCHANGED <<F, diagram1, diagram2, normalize_vars, call_vars>>

NextF ==
    \/ Layer1
    \/ Second
    \/ Layer2
    \/ Apply
    \/ ApplyThen
    \/ ApplyTensor

SpecF == InitF /\ [][NextF]_vars

----------------------------------------------------------------------------
(* Constructors and functions called on their own, on Types drawn at the    *)
(* start                                                                    *)

LeftObjects == {Ob("n", z) : z \in -2..2} \cup {Ob("s", 0)}

RightObjects == {Ob("n", z) : z \in -1..1} \cup {Ob("s", 0)}

\* the functors applied to a Type: no box images are needed
TyFunctors == {fun \in Functors : DOMAIN fun.ar = {}}

idle_vars == <<normalize_vars, diagram1, diagram2, op, whole, parts>>

InitC ==
    /\ arg_left \in Types(LeftObjects, MaxArg)
    /\ arg_right \in Types(RightObjects, MaxArg)
    /\ call = "none"
    /\ returned = <<>>
    /\ F = [ob |-> <<>>, ar |-> <<>>]
    /\ diagram1 = Id(<<>>)
    /\ diagram2 = Id(<<>>)
    /\ op = "none"
    /\ whole = Id(<<>>)
    /\ parts = Id(<<>>)
    /\ self = Id(<<>>)
    /\ left = FALSE
    /\ diagram = self
    /\ pc = "idle"
    /\ cup = 0
    /\ cap = 0
    /\ left_obstruction = <<>>
    /\ right_obstruction = <<>>
    /\ left_snake = FALSE
    /\ n_done = 0
    /\ flat_i = 0
    /\ no_more_moves = TRUE
    /\ round = 1
    /\ n_yield = 0
    /\ n_elim = 0

\* t.l, t.r, t.l.r and t.r.l of the left Type
Adjoints ==
    /\ call = "none"
    /\ call' = "adjoints"
    /\ returned' = [l |-> Ty_l(arg_left), r |-> Ty_r(arg_left),
                    lr |-> Ty_r(Ty_l(arg_left)), rl |-> Ty_l(Ty_r(arg_left))]
    /\ UNCHANGED <<arg_left, arg_right, F, idle_vars>>

\* a == b, hash(a), hash(b), a == a.l.l and a == a.r.r for two objects
ObEq ==
    /\ call = "none"
    /\ Len(arg_left) = 1
    /\ Len(arg_right) = 1
    /\ call' = "eq"
    /\ LET a == arg_left[1]
           b == arg_right[1]
       IN returned' = [eq |-> Ob_eq(a, b),
                       hashes |-> <<Ob_hash(a), Ob_hash(b)>>,
                       eq_ll |-> Ob_eq(a, Ob_l(Ob_l(a))),
                       eq_rr |-> Ob_eq(a, Ob_r(Ob_r(a)))]
    /\ UNCHANGED <<arg_left, arg_right, F, idle_vars>>

\* F(t) for the left Type
FunctorOnTy ==
    /\ call = "none"
    /\ \E fun \in TyFunctors :
          /\ F' = fun
          /\ returned' = Functor_ty(fun, arg_left)
    /\ call' = "functor"
    /\ UNCHANGED <<arg_left, arg_right, idle_vars>>

\* Cup(left, right), each operand a Type or not
CupInit ==
    /\ call = "none"
    /\ \E left_is_ty \in BOOLEAN, right_is_ty \in BOOLEAN :
          returned' = [is_ty |-> <<left_is_ty, right_is_ty>>,
                       box |-> Cup_init(left_is_ty, right_is_ty, arg_left, arg_right)]
    /\ call' = "Cup"
    /\ UNCHANGED <<arg_left, arg_right, F, idle_vars>>

\* Cap(left, right), each operand a Type or not
CapInit ==
    /\ call = "none"
    /\ \E left_is_ty \in BOOLEAN, right_is_ty \in BOOLEAN :
          returned' = [is_ty |-> <<left_is_ty, right_is_ty>>,
                       box |-> Cap_init(left_is_ty, right_is_ty, arg_left, arg_right)]
    /\ call' = "Cap"
    /\ UNCHANGED <<arg_left, arg_right, F, idle_vars>>

\* a generator, what .dagger() returned or raised, and what .dagger() of
\* that did
daggers(box, once, twice) ==
    [box |-> box, once |-> once, twice |-> IF IsError(once) THEN once ELSE twice]

\* Cup(left, right).dagger() and .dagger().dagger()
CupDagger ==
    /\ call = "none"
    /\ IsCup(Cup(arg_left, arg_right))
    /\ LET box == Cup(arg_left, arg_right)
       IN returned' = daggers(box, Cup_dagger(box), Cap_dagger(Cup_dagger(box)))
    /\ call' = "Cup.dagger"
    /\ UNCHANGED <<arg_left, arg_right, F, idle_vars>>

\* Cap(left, right).dagger() and .dagger().dagger()
CapDagger ==
    /\ call = "none"
    /\ IsCap(Cap(arg_left, arg_right))
    /\ LET box == Cap(arg_left, arg_right)
       IN returned' = daggers(box, Cap_dagger(box), Cup_dagger(Cap_dagger(box)))
    /\ call' = "Cap.dagger"
    /\ UNCHANGED <<arg_left, arg_right, F, idle_vars>>

\* cups(left, right)
CallCups ==
    /\ call = "none"
    /\ returned' = cups(arg_left, arg_right)
    /\ call' = "cups"
    /\ UNCHANGED <<arg_left, arg_right, F, idle_vars>>

\* caps(left, right)
CallCaps ==
    /\ call = "none"
    /\ returned' = caps(arg_left, arg_right)
    /\ call' = "caps"
    /\ UNCHANGED <<arg_left, arg_right, F, idle_vars>>

NextC ==
    \/ Adjoints
    \/ ObEq
    \/ FunctorOnTy
    \/ CupInit
    \/ CapInit
    \/ CupDagger
    \/ CapDagger
    \/ CallCups
    \/ CallCaps

SpecC == InitC /\ [][NextC]_vars

----------------------------------------------------------------------------
(* quantum.py: the generators of circuits and their daggers *)

MaxQubits == 2

bit == <<Ob("bit", 0)>>

qubit == <<Ob("qubit", 0)>>

\* ty ** n: n copies of ty side by side
RECURSIVE pow(_, _)
pow(ty, k) == IF k = 0 THEN <<>> ELSE ty \o pow(ty, k - 1)

\* a generator: its class, its formatted name (the class word and the
\* arguments the format writes), its types and the attributes it stores
QBox(class, name, dom, cod, attrs) ==
    [class |-> class, name |-> name, dom |-> dom, cod |-> cod,
     attrs |-> attrs]

Swap_init(l, r) ==
    QBox("Swap", <<"Swap", l, r>>, l \o r, r \o l,
         [left |-> l, right |-> r])

Discard_init(dom_is_int, dom) ==
    LET ty == IF dom_is_int THEN pow(qubit, dom) ELSE dom
    IN QBox("Discard", <<"Discard", ty>>, ty, pow(qubit, 0), [x \in {} |-> 0])

MixedState_init(cod_is_int, cod) ==
    LET ty == IF cod_is_int THEN pow(qubit, cod) ELSE cod
    IN QBox("MixedState", <<"MixedState", ty>>, pow(qubit, 0), ty,
            [x \in {} |-> 0])

\* .replace("()", "(1)").replace(')', ", <flag>)") on a name: the number
\* it shows, if any, and the flags it shows
name_flag(name, flag) ==
    [shown |-> IF name.shown = <<>> /\ name.flags = <<>> THEN <<1>>
               ELSE name.shown,
     flags |-> Append(name.flags, flag)]

Measure_name(n_qubits, destructive, override_bits) ==
    LET name0 == [shown |-> IF n_qubits = 1 THEN <<>> ELSE <<n_qubits>>,
                  flags |-> <<>>]
        name1 == IF ~destructive THEN name_flag(name0, "destructive=False")
                 ELSE name0
        name2 == IF override_bits THEN name_flag(name1, "override_bits=True")
                 ELSE name1
    IN name2

Measure_init(n_qubits, destructive, override_bits) ==
    LET dom0 == pow(qubit, n_qubits)
        cod0 == pow(bit, n_qubits)
        cod1 == IF ~destructive THEN pow(qubit, n_qubits) \o cod0 ELSE cod0
        dom1 == IF override_bits THEN dom0 \o pow(bit, n_qubits) ELSE dom0
    IN QBox("Measure",
            <<"Measure", Measure_name(n_qubits, destructive, override_bits)>>,
            dom1, cod1,
            [n_qubits |-> n_qubits, destructive |-> destructive,
             override_bits |-> override_bits])

\* the three .replace calls rename the class word and the two flags
Encode_flag(word) ==
    IF word = "destructive=False" THEN "constructive=False"
    ELSE IF word = "override_bits=True" THEN "reset_bits=True"
    ELSE word

Encode_name(n_bits, constructive, reset_bits) ==
    LET name == Measure_name(n_bits, constructive, reset_bits)
    IN [shown |-> name.shown,
        flags |-> [k \in 1..Len(name.flags) |-> Encode_flag(name.flags[k])]]

Encode_init(n_bits, constructive, reset_bits) ==
    QBox("Encode",
         <<"Encode", Encode_name(n_bits, constructive, reset_bits)>>,
         pow(bit, n_bits), pow(qubit, n_bits),
         [n_bits |-> n_bits, constructive |-> constructive,
          reset_bits |-> reset_bits])

QGate_init(name, n_qubits, _dagger) ==
    QBox("QGate", <<name>>, pow(qubit, n_qubits), pow(qubit, n_qubits),
         [_dagger |-> _dagger])

CGate_init(name, n_bits_in, n_bits_out, _dagger) ==
    QBox("CGate", <<name>>, pow(bit, n_bits_in), pow(bit, n_bits_out),
         [_dagger |-> _dagger])

Bits_init(bitstring, _dagger) ==
    LET arity == IF _dagger THEN <<Len(bitstring), 0>>
                 ELSE <<0, Len(bitstring)>>
        gate == CGate_init("Bits", arity[1], arity[2], _dagger)
    IN QBox("Bits", <<"Bits", bitstring>>, gate.dom, gate.cod,
            [_dagger |-> _dagger, bitstring |-> bitstring])

Ket_init(bitstring) ==
    QBox("Ket", <<"Ket", bitstring>>, pow(qubit, 0),
         pow(qubit, Len(bitstring)), [bitstring |-> bitstring])

Bra_init(bitstring) ==
    QBox("Bra", <<"Bra", bitstring>>, pow(qubit, Len(bitstring)),
         pow(qubit, 0), [bitstring |-> bitstring])

Swap_dagger(box) == Swap_init(box.attrs.right, box.attrs.left)

Discard_dagger(box) == MixedState_init(FALSE, box.dom)

MixedState_dagger(box) == Discard_init(FALSE, box.cod)

Measure_dagger(box) ==
    Encode_init(box.attrs.n_qubits, box.attrs.destructive,
                box.attrs.override_bits)

Encode_dagger(box) ==
    Measure_init(box.attrs.n_bits, box.attrs.constructive,
                 box.attrs.reset_bits)

QGate_dagger(box) ==
    QGate_init(box.name[1], Len(box.dom), ~box.attrs._dagger)

CGate_dagger(box) ==
    CGate_init(box.name[1], Len(box.dom), Len(box.cod), ~box.attrs._dagger)

Bits_dagger(box) == Bits_init(box.attrs.bitstring, ~box.attrs._dagger)

Ket_dagger(box) == Bra_init(box.attrs.bitstring)

Bra_dagger(box) == Ket_init(box.attrs.bitstring)

\* box.dagger(), by the class of box
dagger(box) ==
    CASE box.class = "Swap" -> Swap_dagger(box)
      [] box.class = "Discard" -> Discard_dagger(box)
      [] box.class = "MixedState" -> MixedState_dagger(box)
      [] box.class = "Measure" -> Measure_dagger(box)
      [] box.class = "Encode" -> Encode_dagger(box)
      [] box.class = "QGate" -> QGate_dagger(box)
      [] box.class = "CGate" -> CGate_dagger(box)
      [] box.class = "Bits" -> Bits_dagger(box)
      [] box.class = "Ket" -> Ket_dagger(box)
      [] box.class = "Bra" -> Bra_dagger(box)

----------------------------------------------------------------------------
(* quantum.py: classical-quantum maps *)

MaxDim == 3

\* a classical-quantum type; Dim(1) is the empty tuple of dimensions
CQ(classical, quantum) == [classical |-> classical, quantum |-> quantum]

C(dim) == CQ(dim, <<>>)

Q(dim) == CQ(<<>>, dim)

CQ_tensor(a, b) == CQ(a.classical \o b.classical, a.quantum \o b.quantum)

\* Tensor(dom, cod, array): the flat array, read with the shape dom @ cod
Tensor(dom, cod, array) ==
    [dom |-> dom, cod |-> cod, shape |-> dom \o cod, array |-> array]

\* the position of an index in the flat array: the last index runs fastest
RECURSIVE ravel(_, _)
ravel(shape, index) ==
    IF index = <<>> THEN 0
    ELSE LET last == Len(index)
         IN ravel(Slice(shape, 0, last - 1), Slice(index, 0, last - 1))
                * shape[last] + index[last]

getitem(data, index) == data.array[ravel(data.shape, index) + 1]

CQMap(dom, cod, array) ==
    LET data == Tensor(dom.classical \o dom.quantum \o dom.quantum,
                       cod.classical \o cod.quantum \o cod.quantum, array)
    IN [dom |-> dom, cod |-> cod, array |-> data.array, data |-> data]

\* the values of the loop variables of `depth` nested loops over range(size),
\* in the order the loops visit them
RECURSIVE loops(_, _)
loops(size, depth) ==
    IF depth = 0 THEN << <<>> >>
    ELSE LET inner == loops(size, depth - 1)
         IN [p \in 1..(size * Len(inner)) |->
                <<(p - 1) \div Len(inner)>> \o inner[((p - 1) % Len(inner)) + 1]]

int(b) == IF b THEN 1 ELSE 0

first_pair_eq(index) == Len(index) < 2 \/ index[1] = index[2]

\* i == j == k ...: every neighbouring pair is equal
chained_eq(index) == \A p \in 1..(Len(index) - 1) : index[p] = index[p + 1]

\* the dimension tuples measure is called with: empty, or a single dimension
Dims == {<<>>} \cup {<<d>> : d \in 2..MaxDim}

\* the number of entries of an array of the given shape
RECURSIVE product(_)
product(dim) ==
    IF dim = <<>> THEN 1 ELSE dim[1] * product(SliceFrom(dim, 1))

RECURSIVE sum(_)
sum(terms) ==
    IF terms = <<>> THEN 0 ELSE terms[1] + sum(SliceFrom(terms, 1))

\* what a call hands back when it raises
Raised(result) == "kind" \in DOMAIN result

\* data >> other: an AxiomError unless data.cod == other.dom, else the
\* legs of data.cod are summed over; with the last index running fastest
\* the flat arrays are multiplied as a (dom x cod) and a (cod x other.cod)
\* matrix
Tensor_then(data, other) ==
    IF data.cod # other.dom THEN Raise("AxiomError")
    ELSE LET rows == product(data.dom)
             inner == product(data.cod)
             cols == product(other.cod)
         IN Tensor(data.dom, other.cod,
                   [p \in 1..(rows * cols) |->
                       sum([m \in 1..inner |->
                           data.array[((p - 1) \div cols) * inner + m]
                           * other.array[(m - 1) * cols + ((p - 1) % cols) + 1]])])

\* Tensor.id(dim).array: one where the index of the domain legs equals the
\* index of the codomain legs
Tensor_id_array(dim) ==
    LET size == product(dim)
    IN [p \in 1..(size * size) |-> int((p - 1) \div size = (p - 1) % size)]

\* CQMap.__eq__
CQMap_eq(a, b) == a.dom = b.dom /\ a.cod = b.cod /\ a.data = b.data

\* map.then(other) for one other map
CQMap_then(map, other) ==
    LET data == Tensor_then(map.data, other.data)
    IN IF Raised(data) THEN data ELSE CQMap(map.dom, other.cod, data.array)

discard_ones(dom) ==
    CQMap(dom, CQ(<<>>, <<>>),
          [p \in 1..(product(dom.classical) * product(dom.quantum)
                         * product(dom.quantum)) |-> 1])

\* np.tensordot(ones, id, 0): the entries of id, once for every index of
\* the classical legs
discard(dom) ==
    LET id == Tensor_id_array(dom.quantum)
    IN CQMap(dom, CQ(<<>>, <<>>),
             [p \in 1..(product(dom.classical) * Len(id)) |->
                 1 * id[((p - 1) % Len(id)) + 1]])

\* the index at a position of the flat array: the last index runs fastest
RECURSIVE unravel(_, _)
unravel(shape, position) ==
    IF shape = <<>> THEN <<>>
    ELSE LET last == Len(shape)
         IN unravel(Slice(shape, 0, last - 1), position \div shape[last])
                \o <<position % shape[last]>>

\* the types of the boxes f and g that stand for the two maps in
\* CQMap.tensor, each wire with its place in the type it is taken from
wires(names, first) ==
    [k \in 1..Len(names) |-> [ob |-> names[k], at |-> first + k - 1]]

f_dom == wires(<<"c00", "q00", "q00">>, 1)

g_dom == wires(<<"c01", "q01", "q01">>, 4)

f_cod == wires(<<"c10", "q10", "q10">>, 1)

g_cod == wires(<<"c11", "q11", "q11">>, 4)

obs(scan) == [k \in 1..Len(scan) |-> scan[k].ob]

\* scan >> Diagram.id(before) @ Diagram.swap(left, right) @ Diagram.id(after):
\* the wires of right come before the wires of left
swap_layer(scan, before, left_ty, right_ty) ==
    LET mid == Len(before) + Len(left_ty)
        end == mid + Len(right_ty)
    IN IF obs(Slice(scan, 0, end)) # obs(before \o left_ty \o right_ty)
       THEN Raise("AxiomError")
       ELSE Slice(scan, 0, Len(before)) \o Slice(scan, mid, end)
                \o Slice(scan, Len(before), mid) \o SliceFrom(scan, end)

permute_above_first_layer ==
    LET scan == Slice(f_dom, 0, 1) \o Slice(g_dom, 0, 1) \o Slice(f_dom, 1, 2)
                    \o Slice(g_dom, 1, 2) \o SliceFrom(f_dom, 2)
                    \o SliceFrom(g_dom, 2)
    IN [dom |-> scan,
        cod |-> swap_layer(scan,
                           Slice(f_dom, 0, 1) \o Slice(g_dom, 0, 1)
                               \o Slice(f_dom, 1, 2),
                           Slice(g_dom, 1, 2), SliceFrom(f_dom, 2))]

\* the wires after permute_above, from the wires of its dom
permute_above ==
    LET scan == Slice(f_dom, 0, 1) \o Slice(g_dom, 0, 1) \o Slice(f_dom, 1, 2)
                    \o Slice(g_dom, 1, 2) \o SliceFrom(f_dom, 2)
                    \o SliceFrom(g_dom, 2)
        first == swap_layer(scan,
                            Slice(f_dom, 0, 1) \o Slice(g_dom, 0, 1)
                                \o Slice(f_dom, 1, 2),
                            Slice(g_dom, 1, 2), SliceFrom(f_dom, 2))
    IN [dom |-> scan,
        cod |-> swap_layer(first, Slice(f_dom, 0, 1), Slice(g_dom, 0, 1),
                           SliceFrom(f_dom, 1))]

\* the wires after permute_below, from the wires of f.cod @ g.cod
permute_below ==
    LET scan == f_cod \o g_cod
        first == swap_layer(scan, Slice(f_cod, 0, 1), SliceFrom(f_cod, 1),
                            Slice(g_cod, 0, 1))
    IN [dom |-> scan,
        cod |-> swap_layer(first,
                           Slice(f_cod, 0, 1) \o Slice(g_cod, 0, 1)
                               \o Slice(f_cod, 1, 2),
                           SliceFrom(f_cod, 2), Slice(g_cod, 1, 2))]

\* the dictionary ob of CQMap.tensor: the name of a wire is c or q, then 0 for
\* dom or 1 for cod, then 0 for self or 1 for the other map
tensor_ob(name, map, other) ==
    CASE name = "c00" -> map.dom.classical
      [] name = "q00" -> map.dom.quantum
      [] name = "c10" -> map.cod.classical
      [] name = "q10" -> map.cod.quantum
      [] name = "c01" -> other.dom.classical
      [] name = "q01" -> other.dom.quantum
      [] name = "c11" -> other.cod.classical
      [] name = "q11" -> other.cod.quantum

\* the legs of the image of a type: one for every dimension of the image of
\* every wire
RECURSIVE legs(_, _, _)
legs(scan, map, other) ==
    IF scan = <<>> THEN <<>>
    ELSE LET dim == tensor_ob(scan[1].ob, map, other)
         IN [k \in 1..Len(dim) |-> [at |-> scan[1].at, k |-> k, dim |-> dim[k]]]
                \o legs(SliceFrom(scan, 1), map, other)

where(all_legs, leg) == CHOOSE p \in 1..Len(all_legs) : all_legs[p] = leg

\* F(permute_above >> f @ g >> permute_below).array: the permutations only
\* say which leg of the result is which leg of map and of other
tensor_array(map, other) ==
    LET dom_legs == legs(permute_above.dom, map, other)
        inner_dom == legs(permute_above.cod, map, other)
        inner_cod == legs(permute_below.dom, map, other)
        cod_legs == legs(permute_below.cod, map, other)
        shape == [k \in 1..Len(dom_legs) |-> dom_legs[k].dim]
                    \o [k \in 1..Len(cod_legs) |-> cod_legs[k].dim]
        n_dom == Len(map.data.dom)
        n_cod == Len(map.data.cod)
        above(index, k) == index[where(dom_legs, inner_dom[k])]
        below(index, k) ==
            index[Len(dom_legs) + where(cod_legs, inner_cod[k])]
        entry(index) ==
            getitem(map.data,
                    [k \in 1..n_dom |-> above(index, k)]
                        \o [k \in 1..n_cod |-> below(index, k)])
            * getitem(other.data,
                      [k \in 1..(Len(inner_dom) - n_dom) |->
                          above(index, n_dom + k)]
                          \o [k \in 1..(Len(inner_cod) - n_cod) |->
                              below(index, n_cod + k)])
    IN [p \in 1..product(shape) |-> entry(unravel(shape, p - 1))]

\* map.tensor(other) for one other map
CQMap_tensor(map, other) ==
    CQMap(CQ_tensor(map.dom, other.dom), CQ_tensor(map.cod, other.cod),
          tensor_array(map, other))

RECURSIVE measure(_, _)
measure(dim, destructive) ==
    IF dim = <<>> THEN CQMap(CQ(<<>>, <<>>), CQ(<<>>, <<>>), <<1>>)
    ELSE IF Len(dim) = 1
    THEN IF destructive
         THEN LET ijk == loops(dim[1], 3)
                  array == [p \in 1..Len(ijk) |-> int(chained_eq(ijk[p]))]
              IN CQMap(Q(dim), C(dim), array)
         ELSE LET ijklm == loops(dim[1], 5)
                  array ==
                      [p \in 1..Len(ijklm) |-> int(chained_eq(ijklm[p]))]
              IN CQMap(Q(dim), CQ_tensor(C(dim), Q(dim)), array)
    ELSE CQMap_tensor(measure(Slice(dim, 0, 1), destructive),
                      measure(SliceFrom(dim, 1), destructive))

\* the longest classical type discard is called with
MaxLegs == 3

\* the classical types discard is called with: up to MaxLegs equal dimensions
ClassicalDims ==
    {<<>>} \cup UNION {[1..k -> {d}] : k \in 1..MaxLegs, d \in 2..MaxDim}

\* the maps handed to then
Maps ==
    {measure(dim, destructive) : dim \in Dims, destructive \in BOOLEAN}
        \cup {discard(CQ(classical, quantum)) :
                 classical \in ClassicalDims, quantum \in Dims}

\* the largest array of a map handed to tensor
MaxArray == 32

\* the maps handed to tensor
TensorMaps ==
    {map \in {measure(dim, destructive) :
                 dim \in Dims, destructive \in BOOLEAN}
                \cup {discard(CQ(classical, quantum)) :
                         classical \in Dims, quantum \in Dims} :
        Len(map.array) <= MaxArray}

----------------------------------------------------------------------------
(* quantum.py: mixed evaluation of a generator, followed on dom and cod *)

\* Box.__init__: what is_mixed the class hands over
box_is_mixed(box) ==
    CASE box.class = "Swap" -> box.attrs.left # box.attrs.right
      [] box.class \in {"Discard", "MixedState", "Measure", "Encode"} -> TRUE
      [] box.class \in {"QGate", "CGate", "Bits", "Ket", "Bra"} -> FALSE

\* Box.__init__: classical is set on an unmixed box, to whether every wire
\* of dom @ cod is a bit
box_classical(box) ==
    \A k \in 1..Len(box.dom \o box.cod) : (box.dom \o box.cod)[k].name = "bit"

\* a CQMap without its array
typed(dom, cod) == [dom |-> dom, cod |-> cod]

\* ob = {Ty('bit'): C(Dim(2)), Ty('qubit'): Q(Dim(2))}
eval_ob(obj) == IF obj.name = "bit" THEN C(<<2>>) ELSE Q(<<2>>)

\* F_ob(ty) is CQ().tensor(*images), and CQ.tensor takes one other type: a
\* TypeError on a type of no wire or of several
F_ob(ty) ==
    IF Len(ty) # 1 THEN Raise("TypeError")
    ELSE CQ_tensor(CQ(<<>>, <<>>), eval_ob(ty[1]))

\* CQMap.swap(left, right), the arguments evaluated first
swap_typed(left_image, right_image) ==
    IF Raised(left_image) THEN left_image
    ELSE IF Raised(right_image) THEN right_image
    ELSE typed(CQ_tensor(left_image, right_image),
               CQ_tensor(right_image, left_image))

\* CQMap.discard(dom): dom.classical is read first, which a Dim has not
discard_typed(dom_is_cq, dom) ==
    IF Raised(dom) THEN dom
    ELSE IF ~dom_is_cq THEN Raise("AttributeError")
    ELSE LET map == discard(dom) IN typed(map.dom, map.cod)

tensor_typed(map, other) ==
    IF Raised(map) THEN map
    ELSE IF Raised(other) THEN other
    ELSE typed(CQ_tensor(map.dom, other.dom), CQ_tensor(map.cod, other.cod))

dagger_typed(map) == IF Raised(map) THEN map ELSE typed(map.cod, map.dom)

\* the branch of ar for a Measure
ar_Measure(box) ==
    LET image == F_ob(box.dom)
        map == measure(image.quantum, box.attrs.destructive)
    IN IF Raised(image) THEN image
       ELSE IF box.attrs.override_bits
       THEN tensor_typed(typed(map.dom, map.cod),
                         discard_typed(FALSE, image.classical))
       ELSE typed(map.dom, map.cod)

\* the branches of ar for the unmixed boxes
ar_unmixed(box) ==
    LET dom == F_ob(box.dom)
        cod == F_ob(box.cod)
    IN IF Raised(dom) THEN dom
       ELSE IF Raised(cod) THEN cod
       ELSE IF box_classical(box) THEN typed(dom, cod)
       ELSE typed(Q(dom.quantum), Q(cod.quantum))

\* ar(box) of Circuit.eval
ar(box) ==
    CASE box.class = "Swap" ->
            swap_typed(F_ob(Slice(box.dom, 0, 1)), F_ob(SliceFrom(box.dom, 1)))
      [] box.class = "Discard" -> discard_typed(TRUE, F_ob(box.dom))
      [] box.class = "Measure" -> ar_Measure(box)
      [] box.class = "MixedState" ->
            dagger_typed(discard_typed(TRUE, F_ob(dagger(box).dom)))
      [] box.class = "Encode" -> dagger_typed(ar_Measure(dagger(box)))
      [] OTHER ->
            IF ~box_is_mixed(box) THEN ar_unmixed(box)
            ELSE Raise("TypeError")

----------------------------------------------------------------------------
(* quantum.py: whether a circuit is mixed *)

\* the layers of a circuit whose is_mixed is read, and the wires of its dom
MaxCircuit == 2

\* ty.count(ob) for a type ob of one wire
count(ty, obj) == Cardinality({k \in 1..Len(ty) : ty[k] = obj[1]})

\* count(bit) and count(qubit) is a number other than 0
bits_and_qubits(ty) == count(ty, bit) # 0 /\ count(ty, qubit) # 0

\* self.layers[k - 1].cod: the wires left of the box, its cod, the wires right
RECURSIVE layer_cod(_, _)
layer_cod(circuit, k) ==
    LET before == IF k = 1 THEN circuit.dom ELSE layer_cod(circuit, k - 1)
        box == circuit.boxes[k]
        off == circuit.offsets[k]
    IN Slice(before, 0, off) \o box.cod
           \o SliceFrom(before, off + Len(box.dom))

last_layer_mixes(circuit) ==
    DLen(circuit) > 0 /\ bits_and_qubits(layer_cod(circuit, DLen(circuit)))

\* any(layer.cod.count(bit) and layer.cod.count(qubit) for layer in layers)
any_layer_mixes(circuit) ==
    \E k \in 1..DLen(circuit) : bits_and_qubits(layer_cod(circuit, k))

\* Circuit.is_mixed, as what is true of the value it returns
is_mixed(circuit) ==
    LET both_bits_and_qubits ==
            bits_and_qubits(circuit.dom) \/ any_layer_mixes(circuit)
    IN both_bits_and_qubits
           \/ \E k \in 1..DLen(circuit) : box_is_mixed(circuit.boxes[k])

\* the generators laid in circuits: those of every class on single wires
CircuitBoxes ==
    {Swap_init(l, r) : l \in {bit, qubit}, r \in {bit, qubit}}
        \cup {Discard_init(TRUE, 1), MixedState_init(TRUE, 1),
              Measure_init(1, TRUE, FALSE), Measure_init(1, FALSE, FALSE),
              Encode_init(1, TRUE, FALSE), QGate_init("U", 1, FALSE),
              CGate_init("U", 1, 1, FALSE), Bits_init(<<0>>, FALSE),
              Bits_init(<<0>>, TRUE), Ket_init(<<0>>), Bra_init(<<0>>)}

\* the types of up to MaxCircuit bits and qubits
CircuitTypes == UNION {[1..k -> {bit[1], qubit[1]}] : k \in 0..MaxCircuit}

----------------------------------------------------------------------------
(* The calls on circuits: a generator is built, then daggered up to twice,
   or evaluated, or asked whether it is mixed; a circuit is laid layer by
   layer and asked whether it is mixed; or CQMap.measure, then or tensor is
   called *)

GateNames == {"U"}

Bitstrings == UNION {[1..k -> {0, 1}] : k \in 0..MaxQubits}

GeneratorClasses ==
    {"Swap", "Discard", "MixedState", "Measure", "Encode", "QGate", "CGate",
     "Bits", "Ket", "Bra"}

InitQ ==
    /\ arg_left = <<>>
    /\ arg_right = <<>>
    /\ call = "none"
    /\ returned = <<>>
    /\ F = [ob |-> <<>>, ar |-> <<>>]
    /\ diagram1 = Id(<<>>)
    /\ diagram2 = Id(<<>>)
    /\ op = "none"
    /\ whole = Id(<<>>)
    /\ parts = Id(<<>>)
    /\ self = Id(<<>>)
    /\ left = FALSE
    /\ diagram = self
    /\ pc = "idle"
    /\ cup = 0
    /\ cap = 0
    /\ left_obstruction = <<>>
    /\ right_obstruction = <<>>
    /\ left_snake = FALSE
    /\ n_done = 0
    /\ flat_i = 0
    /\ no_more_moves = TRUE
    /\ round = 1
    /\ n_yield = 0
    /\ n_elim = 0

\* the generator just built is held
built(box) ==
    /\ call' = box.class
    /\ returned' = <<box>>
    /\ UNCHANGED <<arg_left, arg_right, F, idle_vars>>

NewSwap ==
    /\ call = "none"
    /\ \E l \in {bit, qubit}, r \in {bit, qubit} : built(Swap_init(l, r))

NewDiscard ==
    /\ call = "none"
    /\ \E dom \in 0..MaxQubits : built(Discard_init(TRUE, dom))

NewMixedState ==
    /\ call = "none"
    /\ \E cod \in 0..MaxQubits : built(MixedState_init(TRUE, cod))

NewMeasure ==
    /\ call = "none"
    /\ \E n_qubits \in 0..MaxQubits, destructive \in BOOLEAN,
          override_bits \in BOOLEAN :
        built(Measure_init(n_qubits, destructive, override_bits))

NewEncode ==
    /\ call = "none"
    /\ \E n_bits \in 0..MaxQubits, constructive \in BOOLEAN,
          reset_bits \in BOOLEAN :
        built(Encode_init(n_bits, constructive, reset_bits))

NewQGate ==
    /\ call = "none"
    /\ \E name \in GateNames, n_qubits \in 0..MaxQubits,
          _dagger \in BOOLEAN :
        built(QGate_init(name, n_qubits, _dagger))

NewCGate ==
    /\ call = "none"
    /\ \E name \in GateNames, n_bits_in \in 0..MaxQubits,
          n_bits_out \in 0..MaxQubits, _dagger \in BOOLEAN :
        built(CGate_init(name, n_bits_in, n_bits_out, _dagger))

NewBits ==
    /\ call = "none"
    /\ \E bitstring \in Bitstrings, _dagger \in BOOLEAN :
        built(Bits_init(bitstring, _dagger))

NewKet ==
    /\ call = "none"
    /\ \E bitstring \in Bitstrings : built(Ket_init(bitstring))

NewBra ==
    /\ call = "none"
    /\ \E bitstring \in Bitstrings : built(Bra_init(bitstring))

\* box.dagger() on the box built last
Dagger ==
    /\ call \in GeneratorClasses
    /\ Len(returned) < 3
    /\ returned' = Append(returned, dagger(returned[Len(returned)]))
    /\ UNCHANGED <<call, arg_left, arg_right, F, idle_vars>>

\* CQMap.measure(dim, destructive)
CallMeasure ==
    /\ call = "none"
    /\ \E dim \in Dims, destructive \in BOOLEAN :
        returned' = [dim |-> dim, destructive |-> destructive,
                     cqmap |-> measure(dim, destructive)]
    /\ call' = "CQMap.measure"
    /\ UNCHANGED <<arg_left, arg_right, F, idle_vars>>

\* f >> g
CallThen ==
    /\ call = "none"
    /\ \E map \in Maps, other \in Maps :
        returned' = [f |-> map, g |-> other, then |-> CQMap_then(map, other)]
    /\ call' = "CQMap.then"
    /\ UNCHANGED <<arg_left, arg_right, F, idle_vars>>

\* f @ g, with the wires its two permutations leave
CallTensor ==
    /\ call = "none"
    /\ \E map \in TensorMaps, other \in TensorMaps :
        returned' = [f |-> map, g |-> other,
                     permute_above |-> permute_above,
                     permute_below |-> permute_below,
                     tensor |-> CQMap_tensor(map, other)]
    /\ call' = "CQMap.tensor"
    /\ UNCHANGED <<arg_left, arg_right, F, idle_vars>>

\* ar(box) of mixed evaluation, on the generator built
CallEval ==
    /\ call \in GeneratorClasses
    /\ Len(returned) = 1
    /\ returned' = [box |-> returned[1], image |-> ar(returned[1])]
    /\ call' = "Circuit.eval"
    /\ UNCHANGED <<arg_left, arg_right, F, idle_vars>>

\* Circuit.id(dom).is_mixed
IdIsMixed ==
    /\ call = "none"
    /\ \E dom \in CircuitTypes :
        returned' = [circuit |-> Id(dom), is_box |-> FALSE,
                     is_mixed |-> is_mixed(Id(dom))]
    /\ call' = "Circuit.is_mixed"
    /\ UNCHANGED <<arg_left, arg_right, F, idle_vars>>

\* box.is_mixed on the generator built: Box.is_mixed is what Box.__init__
\* was handed
BoxIsMixed ==
    /\ call \in GeneratorClasses
    /\ Len(returned) = 1
    /\ returned' = [circuit |-> BoxDiagram(returned[1]), is_box |-> TRUE,
                    is_mixed |-> box_is_mixed(returned[1])]
    /\ call' = "Circuit.is_mixed"
    /\ UNCHANGED <<arg_left, arg_right, F, idle_vars>>

\* (circuit >> Id(left) @ box @ Id(right)).is_mixed
LayerIsMixed ==
    /\ call = "Circuit.is_mixed"
    /\ DLen(returned.circuit) < MaxCircuit
    /\ \E box \in CircuitBoxes :
        \E off \in 0..(Len(returned.circuit.cod) - Len(box.dom)) :
        LET cod == returned.circuit.cod
            layer == tensor(tensor(Id(Slice(cod, 0, off)), BoxDiagram(box)),
                            Id(SliceFrom(cod, off + Len(box.dom))))
            circuit == then(returned.circuit, layer)
        IN /\ layer.dom = cod
           /\ returned' = [circuit |-> circuit, is_box |-> FALSE,
                           is_mixed |-> is_mixed(circuit)]
    /\ UNCHANGED <<call, arg_left, arg_right, F, idle_vars>>

NextQ ==
    \/ NewSwap
    \/ NewDiscard
    \/ NewMixedState
    \/ NewMeasure
    \/ NewEncode
    \/ NewQGate
    \/ NewCGate
    \/ NewBits
    \/ NewKet
    \/ NewBra
    \/ Dagger
    \/ CallMeasure
    \/ CallThen
    \/ CallTensor
    \/ CallEval
    \/ IdIsMixed
    \/ BoxIsMixed
    \/ LayerIsMixed

SpecQ == InitQ /\ [][NextQ]_vars

----------------------------------------------------------------------------
(* What the claims speak of *)

NCap(d) == Cardinality({k \in 1..DLen(d) : IsCap(d.boxes[k])})

NCup(d) == Cardinality({k \in 1..DLen(d) : IsCup(d.boxes[k])})

\* the wires of the scan type after layer k, given those before it, each
\* named by the layer that emits it (-1 for the domain) and its position in
\* that layer's codomain
WiresAfter(d, k, w) ==
    LET box == d.boxes[k]
        off == d.offsets[k]
    IN Slice(w, 0, off) \o [p \in 1..Len(box.cod) |-> <<k - 1, p - 1>>]
       \o SliceFrom(w, off + Len(box.dom))

RECURSIVE Wires(_, _)
Wires(d, k) ==
    IF k = 0 THEN [p \in 1..Len(d.dom) |-> <<-1, p - 1>>]
    ELSE WiresAfter(d, k, Wires(d, k - 1))

EmittedByCap(d, wire, p) ==
    /\ wire[1] >= 0
    /\ IsCap(d.boxes[wire[1] + 1])
    /\ wire[2] = p

\* from layer k on, with the wires w before it: some Cap's left wire enters
\* the right leg of a Cup, or some Cap's right wire enters the left leg of
\* a Cup
RECURSIVE HasSnakeFrom(_, _, _)
HasSnakeFrom(d, k, w) ==
    IF k > DLen(d) THEN FALSE
    ELSE LET off == d.offsets[k]
         IN \/ /\ IsCup(d.boxes[k])
               /\ off >= 0
               /\ off + 2 <= Len(w)
               /\ \/ EmittedByCap(d, w[off + 2], 0)
                  \/ EmittedByCap(d, w[off + 1], 1)
            \/ HasSnakeFrom(d, k + 1, WiresAfter(d, k, w))

HasSnake(d) == HasSnakeFrom(d, 1, Wires(d, 0))

InLoop == pc \in {"find", "unsnake"}

Pending ==
    IF pc = "unsnake"
    THEN Len(left_obstruction) + Len(right_obstruction) - n_done
    ELSE 0

\* C1: every diagram normalize yields is well-typed, from self.dom to self.cod
C1_YieldedWellTyped ==
    /\ WellTyped(diagram)
    /\ diagram.dom = self.dom
    /\ diagram.cod = self.cod

C1_Witness ==
    /\ pc = "find"
    /\ n_elim >= 1
    /\ n_yield >= 3
    /\ DLen(diagram) >= 1

IsTransposedId(d) ==
    /\ DLen(d) = 2 * Len(d.dom)
    /\ \/ d = transpose(Id(Ty_r(d.dom)), TRUE)
       \/ d = transpose(Id(Ty_l(d.dom)), FALSE)

\* C2: Id(t.r).transpose(left=True) and Id(t.l).transpose() normalize to Id(t)
C2_SnakeLaw ==
    (pc = "done" /\ round = 1 /\ IsTransposedId(self)) => diagram = Id(self.dom)

C2_Witness ==
    /\ pc = "done"
    /\ round = 1
    /\ IsTransposedId(self)
    /\ Len(self.dom) >= 2
    /\ DLen(self) = 2 * Len(self.dom)
    /\ \E k \in 1..Len(self.dom) : self.dom[k].z # 0

\* C3: normalize run on a normal form yields no diagram different from it
C3_Idempotent ==
    round >= 2 => (diagram = self /\ pc # "error")

C3_Witness ==
    /\ round = 2
    /\ pc = "done"
    /\ DLen(diagram) >= 3
    /\ NCap(diagram) >= 1
    /\ NCup(diagram) >= 1

\* a number that every step of the snake-removal loop makes smaller
Measure ==
    (NCap(diagram) + NCup(diagram)) * (DLen(self) + 2)
    + (IF pc = "find" THEN DLen(self) + 1 ELSE Pending)

C4_Step ==
    InLoop =>
        /\ Measure' < Measure
        /\ (pc = "unsnake" /\ pc' = "find") =>
              /\ NCap(diagram') = NCap(diagram) - 1
              /\ NCup(diagram') = NCup(diagram) - 1
        /\ ~(pc = "unsnake" /\ pc' = "find") =>
              /\ NCap(diagram') = NCap(diagram)
              /\ NCup(diagram') = NCup(diagram)
        /\ n_elim' <= Min(NCap(self), NCup(self))
        /\ pc' = "unsnake" =>
              n_done' <= Len(left_obstruction') + Len(right_obstruction')
        /\ n_yield' <= Min(NCap(self), NCup(self)) * (DLen(self) + 1)

\* C4: each elimination removes one Cap and one Cup, there are at most
\* min(#Cap, #Cup) of them, each makes at most as many interchanges as it
\* found obstructions, and every step of the loop decreases a natural number
C4_Terminates == [][C4_Step]_vars

C4_Witness ==
    /\ pc = "flatten"
    /\ n_elim >= 2
    /\ n_yield >= 4

\* the interchange the next step of unsnake asks for
NextInterchange ==
    LET nl == Len(left_obstruction)
        k == n_done - nl + 1
    IN IF left_snake
       THEN IF n_done < nl THEN <<left_obstruction[n_done + 1], cap>>
            ELSE <<Reverse(right_obstruction)[k], cup>>
       ELSE IF n_done < nl THEN <<Reverse(left_obstruction)[n_done + 1], cup>>
            ELSE <<right_obstruction[k], cap>>

\* C5: unsnake never fails: every interchange it asks for succeeds, and the
\* indices it keeps are those of the Cap, the Cup and layers between them
C5_Total ==
    /\ pc # "error"
    /\ pc = "unsnake" =>
          /\ 0 <= cap /\ cap < cup /\ cup < DLen(diagram)
          /\ IsCap(diagram.boxes[cap + 1])
          /\ IsCup(diagram.boxes[cup + 1])
          /\ Pending > 0 =>
                /\ cap < NextInterchange[1] /\ NextInterchange[1] < cup
                /\ ~IsDiagramError(interchange(diagram, NextInterchange[1],
                                               NextInterchange[2], FALSE))

\* a right obstruction of a left snake was re-indexed, and the left
\* obstruction went past it on its way to the Cap
C5_Witness ==
    /\ pc = "unsnake"
    /\ left_snake
    /\ n_done = Len(left_obstruction)
    /\ Pending > 0
    /\ \E i \in 1..Len(right_obstruction), k \in 1..Len(left_obstruction) :
          right_obstruction[i] = left_obstruction[k]

\* C6: once find_snake finds nothing, no Cap's left wire enters the right
\* leg of a Cup and no Cap's right wire enters the left leg of a Cup
C6_Irreducible ==
    pc \in {"flatten", "done"} => ~HasSnake(diagram)

C6_Witness ==
    /\ pc = "flatten"
    /\ n_elim >= 1
    /\ NCap(diagram) + NCup(diagram) >= 1

IsTwoSnakes(d, is_left) ==
    /\ Len(d.dom) = 2
    /\ DLen(d) = 4
    /\ LET t == IF is_left THEN Ty_r(d.dom) ELSE Ty_l(d.dom)
       IN d \in {double_snake(t[1], t[2], is_left), two_snakes(t[1], t[2], is_left)}

\* C7: Id(a @ b).transpose() and Id(b).transpose() @ Id(a).transpose() are
\* different diagrams, and both normalize to the identity of their domain
C7_TwoSnakes ==
    (pc \in {"built", "done"} /\ round = 1) =>
        \A is_left \in BOOLEAN :
            IsTwoSnakes(self, is_left) =>
                LET t == IF is_left THEN Ty_r(self.dom) ELSE Ty_l(self.dom)
                IN /\ double_snake(t[1], t[2], is_left) # two_snakes(t[1], t[2], is_left)
                   /\ pc = "done" => diagram = Id(self.dom)

C7_Witness ==
    /\ pc = "done"
    /\ round = 1
    /\ \E is_left \in BOOLEAN :
          /\ IsTwoSnakes(self, is_left)
          /\ self # double_snake((IF is_left THEN Ty_r(self.dom) ELSE Ty_l(self.dom))[1],
                                 (IF is_left THEN Ty_r(self.dom) ELSE Ty_l(self.dom))[2],
                                 is_left)
    /\ self.dom[1].name # self.dom[2].name

\* the layers (numbered from 1) that are neither Cup nor Cap
Others(d) == {k \in 1..DLen(d) : ~IsCup(d.boxes[k]) /\ ~IsCap(d.boxes[k])}

Occurrences(d, box) == Cardinality({k \in 1..DLen(d) : d.boxes[k] = box})

\* layer j takes as input a wire that layer i emits
Depends(d, i, j) ==
    LET w == Wires(d, j - 1)
        off == d.offsets[j]
    IN \E p \in 1..Len(d.boxes[j].dom) : w[off + p][1] = i - 1

\* a Cap(n.r, n), boxes, and a Cup(n, n.r) that closes the snake
ScenarioD(d) ==
    /\ NCap(d) = 1
    /\ NCup(d) = 1
    /\ \A k \in 1..DLen(d) :
          /\ IsCap(d.boxes[k]) => d.boxes[k] = Cap(Ty_r(n), n)
          /\ IsCup(d.boxes[k]) => d.boxes[k] = Cup(n, Ty_r(n))
    /\ HasSnake(d)

\* C8: such a diagram normalizes to one without Cup and Cap, in which every
\* other box occurs as often as before and a box that fed another one
\* still comes before it
C8_ScenarioD ==
    (pc = "done" /\ round = 1 /\ ScenarioD(self)) =>
        /\ NCap(diagram) = 0
        /\ NCup(diagram) = 0
        /\ DLen(diagram) = DLen(self) - 2
        /\ \A k \in Others(self) :
              Occurrences(diagram, self.boxes[k]) = Occurrences(self, self.boxes[k])
        /\ \A i \in Others(self), j \in Others(self) :
              (/\ i < j
               /\ Occurrences(self, self.boxes[i]) = 1
               /\ Occurrences(self, self.boxes[j]) = 1
               /\ Depends(self, i, j))
              => \E a \in 1..DLen(diagram), b \in 1..DLen(diagram) :
                    /\ a < b
                    /\ diagram.boxes[a] = self.boxes[i]
                    /\ diagram.boxes[b] = self.boxes[j]

C8_Witness ==
    /\ pc = "done"
    /\ round = 1
    /\ self = docstring_diagram
    /\ diagram.boxes = <<g, f_dagger, f, h>>
    /\ diagram.offsets = <<0, 0, 0, 0>>

----------------------------------------------------------------------------
(* Functors *)

\* every box of d that is neither a Cup nor a Cap has an entry in fun.ar
HasImages(fun, d) ==
    \A k \in 1..DLen(d) :
        IsCup(d.boxes[k]) \/ IsCap(d.boxes[k]) \/ d.boxes[k] \in DOMAIN fun.ar

CupOrCap(d) == \E k \in 1..DLen(d) : IsCup(d.boxes[k]) \/ IsCap(d.boxes[k])

(* C9: a rigid functor is a monoidal homomorphism: when F has an image for *)
(* the boxes of d1 and d2, F(d1 >> d2) is the diagram F(d1) >> F(d2) when  *)
(* d1.cod = d2.dom, and F(d1 @ d2) is the diagram F(d1) @ F(d2), Cup and   *)
(* Cap layers included, and neither application raises.                    *)
C9_Homomorphism ==
    (op \in {"then", "tensor"} /\ HasImages(F, diagram1) /\ HasImages(F, diagram2)) =>
        /\ ~IsDiagramError(whole)
        /\ whole = parts
        /\ WellTyped(whole)

C9_Witness ==
    /\ op = "tensor"
    /\ CupOrCap(diagram1)
    /\ DLen(diagram2) >= 1
    /\ Len(F.ob["n"]) = 2
    /\ HasImages(F, diagram1) /\ HasImages(F, diagram2)
    /\ DLen(whole) >= 3
    /\ whole = parts

\* the diagram is the one layer of this box, at offset 0
IsBox(d, box) == d = BoxDiagram(box)

(* C10: the image of Cup(a, b) is the nested cups of F(a) and F(b) and the  *)
(* image of Cap(a, b) the nested caps, whatever ar holds; a diagram with    *)
(* Cup and Cap layers is evaluated with no KeyError when ar has no entry    *)
(* for a Cup or a Cap, and the image goes from F(dom) to F(cod).            *)
C10_CupCapImages ==
    op = "call" =>
        /\ HasImages(F, diagram1) =>
              /\ ~IsDiagramError(whole)
              /\ WellTyped(whole)
              /\ whole.dom = Functor_ty(F, diagram1.dom)
              /\ whole.cod = Functor_ty(F, diagram1.cod)
        /\ \A box \in {Cup(n, Ty_r(n)), Cup(Ty_l(n), n)} :
              IsBox(diagram1, box) =>
                 LET a == Functor_ty(F, Slice(box.dom, 0, 1))
                 IN /\ whole.dom = a \o Ty_r(a)
                    /\ whole.cod = <<>>
                    /\ DLen(whole) = Len(a)
                    /\ \A k \in 1..Len(a) :
                         /\ whole.boxes[k] =
                               Cup(<<a[Len(a) - k + 1]>>, Ty_r(<<a[Len(a) - k + 1]>>))
                         /\ whole.offsets[k] = Len(a) - k
        /\ \A box \in {Cap(Ty_r(n), n), Cap(n, Ty_l(n))} :
              IsBox(diagram1, box) =>
                 LET a == Functor_ty(F, Slice(box.cod, 0, 1))
                 IN /\ whole.dom = <<>>
                    /\ whole.cod = a \o Ty_l(a)
                    /\ DLen(whole) = Len(a)
                    /\ \A k \in 1..Len(a) :
                         /\ whole.boxes[k] = Cap(<<a[k]>>, Ty_l(<<a[k]>>))
                         /\ whole.offsets[k] = k - 1

C10_Witness ==
    /\ op = "call"
    /\ IsBox(diagram1, Cup(Ty_l(n), n))
    /\ DOMAIN F.ar = {}
    /\ Len(F.ob["n"]) = 2
    /\ DLen(whole) = 2
    /\ ~IsDiagramError(whole)

----------------------------------------------------------------------------
(* Types, objects and constructors *)

\* t with r applied z times (l applied -z times when z < 0), in closed form:
\* every level goes up by z, and the order is reversed when z is odd
Wound(t, z) ==
    LET shifted == [k \in 1..Len(t) |-> [name |-> t[k].name, z |-> t[k].z + z]]
    IN IF z % 2 = 0 THEN shifted ELSE Reverse(shifted)

RECURSIVE Concat(_)
Concat(types) == IF types = <<>> THEN <<>> ELSE Head(types) \o Concat(Tail(types))

(* C11: F(t) is the concatenation, in the order of the objects (name, z) of *)
(* t, of the image of (name, 0) with l applied -z times when z < 0 and r    *)
(* applied z times when z > 0; the images of the zero-level objects are all *)
(* F needs.                                                                 *)
C11_FunctorOnType ==
    call = "functor" =>
        returned = Concat([k \in 1..Len(arg_left) |->
                              Wound(F.ob[arg_left[k].name], arg_left[k].z)])

C11_Witness ==
    /\ call = "functor"
    /\ Len(arg_left) = 2
    /\ arg_left[1].z = -2
    /\ arg_left[2].z = 1
    /\ Len(F.ob["n"]) = 2
    /\ Len(returned) = 4

(* C12: l and r are mutual inverses: a.l.r = a = a.r.l for every object and *)
(* t.l.r = t = t.r.l for every Type, the empty one included, where l and r  *)
(* reverse the Type and move every level by -1 and +1.                      *)
C12_AdjointsInverse ==
    call = "adjoints" =>
        /\ returned.lr = arg_left
        /\ returned.rl = arg_left
        /\ Len(returned.l) = Len(arg_left)
        /\ Len(returned.r) = Len(arg_left)
        /\ \A k \in 1..Len(arg_left) :
              LET a == arg_left[Len(arg_left) + 1 - k]
              IN /\ returned.l[k] = [name |-> a.name, z |-> a.z - 1]
                 /\ returned.r[k] = [name |-> a.name, z |-> a.z + 1]
                 /\ Ob_r(Ob_l(a)) = a
                 /\ Ob_l(Ob_r(a)) = a

C12_Witness ==
    /\ call = "adjoints"
    /\ Len(arg_left) = 2
    /\ arg_left[1] # arg_left[2]
    /\ returned.l # returned.r
    /\ returned.lr = arg_left

(* C13: two objects are equal exactly when they have the same name and the  *)
(* same z, equal objects have equal hashes, and a differs from a.l.l and    *)
(* from a.r.r.                                                              *)
C13_ObEquality ==
    call = "eq" =>
        /\ returned.eq <=> (/\ arg_left[1].name = arg_right[1].name
                            /\ arg_left[1].z = arg_right[1].z)
        /\ returned.eq => returned.hashes[1] = returned.hashes[2]
        /\ ~returned.eq_ll
        /\ ~returned.eq_rr

C13_Witness ==
    /\ call = "eq"
    /\ arg_left[1].name = arg_right[1].name
    /\ arg_left[1].z # arg_right[1].z
    /\ ~returned.eq

(* C14: dagger exchanges Cup and Cap: Cup(l, r).dagger() is a Cap whose cod *)
(* is the dom of the Cup, Cap(l, r).dagger() is a Cup whose dom is the cod  *)
(* of the Cap, neither raises, and dagger taken twice gives the generator   *)
(* back.                                                                    *)
C14_DaggerExchanges ==
    /\ call = "Cup.dagger" =>
          /\ IsCap(returned.once)
          /\ returned.once.cod = returned.box.dom
          /\ returned.twice = returned.box
    /\ call = "Cap.dagger" =>
          /\ IsCup(returned.once)
          /\ returned.once.dom = returned.box.cod
          /\ returned.twice = returned.box

\* what lines 424-425 and 452-453 do: the constructor called with the
\* operands in the same order refuses them as the wrong adjunction
C14_DaggerRaises ==
    call \in {"Cup.dagger", "Cap.dagger"} => returned.once = Raise("AxiomError")

\* both operands are Types of one object
Atomic == Len(arg_left) = 1 /\ Len(arg_right) = 1 /\ returned.is_ty = <<TRUE, TRUE>>

\* right is the right adjoint of left, object by object
IsRightAdjoint(l, r) ==
    /\ Len(l) = Len(r)
    /\ \A k \in 1..Len(l) :
          /\ r[k].name = l[Len(l) + 1 - k].name
          /\ r[k].z = l[Len(l) + 1 - k].z + 1

(* C17: for Types of one object, Cup(left, right) is built exactly when    *)
(* right is left.r and Cap(left, right) exactly when left is right.r; every *)
(* other pair, not adjoint or adjoint the wrong way round, raises          *)
(* AxiomError.                                                              *)
C17_CupCapAdjoint ==
    /\ (call = "Cup" /\ Atomic) =>
          IF IsRightAdjoint(arg_left, arg_right)
          THEN /\ IsCup(returned.box)
               /\ returned.box.dom = arg_left \o arg_right
               /\ returned.box.cod = <<>>
          ELSE returned.box = Raise("AxiomError")
    /\ (call = "Cap" /\ Atomic) =>
          IF IsRightAdjoint(arg_right, arg_left)
          THEN /\ IsCap(returned.box)
               /\ returned.box.dom = <<>>
               /\ returned.box.cod = arg_left \o arg_right
          ELSE returned.box = Raise("AxiomError")

\* a Cup refused for its curvature: right.r is left
C17_Witness ==
    /\ call = "Cup"
    /\ Atomic
    /\ IsRightAdjoint(arg_right, arg_left)
    /\ returned.box = Raise("AxiomError")

(* C18: a Cup or a Cap whose operand is a Type of length other than one is  *)
(* refused with the arity error (ValueError), after the check that the     *)
(* operands are Types and before any check of adjointness.                  *)
C18_Arity ==
    call \in {"Cup", "Cap"} =>
        IF returned.is_ty # <<TRUE, TRUE>> THEN returned.box = Raise("TypeError")
        ELSE (Len(arg_left) # 1 \/ Len(arg_right) # 1) =>
                 returned.box = Raise("ValueError")

\* two Types of two objects that are not adjoint: the arity error, not AxiomError
C18_Witness ==
    /\ call = "Cap"
    /\ returned.is_ty = <<TRUE, TRUE>>
    /\ Len(arg_left) = 2
    /\ Len(arg_right) = 2
    /\ ~IsRightAdjoint(arg_left, arg_right)
    /\ ~IsRightAdjoint(arg_right, arg_left)
    /\ returned.box = Raise("ValueError")

(* C16: cups(left, right) and caps(left, right) return a diagram only when  *)
(* left and right are adjoint as whole Types, one way or the other, hence   *)
(* of the same length; for every other pair of Types they raise AxiomError  *)
(* and build no diagram.                                                    *)
C16_CupsAxiomError ==
    call \in {"cups", "caps"} =>
        IF IsRightAdjoint(arg_left, arg_right) \/ IsRightAdjoint(arg_right, arg_left)
        THEN \/ returned = DiagramError("AxiomError")
             \/ /\ ~IsDiagramError(returned)
                /\ WellTyped(returned)
                /\ DLen(returned) = Len(arg_left)
                /\ Len(arg_left) = Len(arg_right)
        ELSE returned = DiagramError("AxiomError")

\* Types of different lengths whose first objects are adjoint
C16_Witness ==
    /\ call = "cups"
    /\ Len(arg_left) = 1
    /\ Len(arg_right) = 2
    /\ IsRightAdjoint(arg_left, SubSeq(arg_right, 1, 1))
    /\ returned = DiagramError("AxiomError")

(* C19: for left of length n and right = left.r, cups(left, right) is a     *)
(* well-typed diagram of n layers from left @ right to the empty Type, its  *)
(* k-th layer (k = 0..n-1) being Cup(left[n-1-k], right[k]) at offset        *)
(* n-1-k; for left = right.r, caps(left, right) is a well-typed diagram of  *)
(* n layers from the empty Type to left @ right, its k-th layer being       *)
(* Cap(left[k], right[n-1-k]) at offset k.                                   *)
C19_NestedCups ==
    LET len == Len(arg_left)
    IN /\ (call = "cups" /\ IsRightAdjoint(arg_left, arg_right)) =>
             /\ ~IsDiagramError(returned)
             /\ WellTyped(returned)
             /\ returned.dom = arg_left \o arg_right
             /\ returned.cod = <<>>
             /\ DLen(returned) = len
             /\ \A k \in 0..(len - 1) :
                   /\ returned.boxes[k + 1] =
                         [kind |-> "Cup", name |-> "Cup",
                          dom |-> <<arg_left[len - k], arg_right[k + 1]>>,
                          cod |-> <<>>]
                   /\ returned.offsets[k + 1] = len - 1 - k
       /\ (call = "caps" /\ IsRightAdjoint(arg_right, arg_left)) =>
             /\ ~IsDiagramError(returned)
             /\ WellTyped(returned)
             /\ returned.dom = <<>>
             /\ returned.cod = arg_left \o arg_right
             /\ DLen(returned) = len
             /\ \A k \in 0..(len - 1) :
                   /\ returned.boxes[k + 1] =
                         [kind |-> "Cap", name |-> "Cap",
                          dom |-> <<>>,
                          cod |-> <<arg_left[k + 1], arg_right[len - k]>>]
                   /\ returned.offsets[k + 1] = k

\* cups(a @ b, (a @ b).r) = Id(a) @ Cup(b, b.r) @ Id(a.r) >> Cup(a, a.r)
C19_Witness ==
    /\ call = "cups"
    /\ Len(arg_left) = 2
    /\ arg_left[1] # arg_left[2]
    /\ returned =
          compose(otimes(otimes(Id(SubSeq(arg_left, 1, 1)),
                                Lift(Cup(SubSeq(arg_left, 2, 2),
                                         Ty_r(SubSeq(arg_left, 2, 2))))),
                         Id(Ty_r(SubSeq(arg_left, 1, 1)))),
                  Lift(Cup(SubSeq(arg_left, 1, 1), Ty_r(SubSeq(arg_left, 1, 1)))))
    /\ ~IsDiagramError(returned)

\* the generators whose types the dagger does not exchange: Measure and
\* Encode with a flag off its default, CGate with unequal arities
KeepsTypes(box) ==
    \/ /\ box.class = "Measure"
       /\ ~box.attrs.destructive \/ box.attrs.override_bits
    \/ /\ box.class = "Encode"
       /\ ~box.attrs.constructive \/ box.attrs.reset_bits
    \/ /\ box.class = "CGate"
       /\ Len(box.dom) # Len(box.cod)

SameBox(a, b) == a.name = b.name /\ a.dom = b.dom /\ a.cod = b.cod

\* C15: for every circuit generator g, g.dagger() has dom g.cod and cod
\* g.dom, and g.dagger().dagger() has the name, dom and cod of g
C15_DaggerInvolution ==
    call \in GeneratorClasses =>
        /\ Len(returned) >= 2 =>
            /\ returned[2].dom = returned[1].cod
            /\ returned[2].cod = returned[1].dom
        /\ Len(returned) = 3 => SameBox(returned[3], returned[1])

\* what the daggers do: the double dagger gives back name, dom and cod for
\* every generator, and the single dagger exchanges dom and cod except on
\* the generators of KeepsTypes
C15_DaggerOfTheRest ==
    call \in GeneratorClasses =>
        /\ Len(returned) >= 2 /\ ~KeepsTypes(returned[1]) =>
            /\ returned[2].dom = returned[1].cod
            /\ returned[2].cod = returned[1].dom
        /\ Len(returned) = 3 => SameBox(returned[3], returned[1])

\* C20: measure of a single dimension d goes from Q(d) to C(d), or to
\* C(d) @ Q(d) when not destructive, and its array of 3, or 5, indices below
\* d holds 1 where all the indices are equal and 0 elsewhere; for d = 2 and
\* destructive the nonzero entries are those at (0,0,0) and (1,1,1); measure
\* of the empty dimension is the scalar 1
C20_Measure ==
    call = "CQMap.measure" =>
        LET m == returned.cqmap
            dim == returned.dim
            empty == <<>>
        IN IF dim = <<>>
           THEN /\ m.array = <<1>>
                /\ m.data.shape = <<>>
           ELSE LET d == dim[1]
                    arity == IF returned.destructive THEN 3 ELSE 5
                    indices == [1..arity -> 0..(d - 1)]
                IN /\ m.dom = [classical |-> empty, quantum |-> <<d>>]
                   /\ m.cod = [classical |-> <<d>>,
                               quantum |-> IF returned.destructive
                                           THEN empty ELSE <<d>>]
                   /\ m.data.shape = [p \in 1..arity |-> d]
                   /\ Len(m.array) = d ^ arity
                   /\ \A index \in indices :
                        getitem(m.data, index) =
                            IF \A p, q \in 1..arity : index[p] = index[q]
                            THEN 1 ELSE 0
                   /\ d = 2 /\ returned.destructive =>
                        {index \in indices : getitem(m.data, index) # 0}
                            = {<<0, 0, 0>>, <<1, 1, 1>>}

C20_Witness ==
    /\ call = "CQMap.measure"
    /\ returned.dim = <<2>>
    /\ returned.destructive
    /\ getitem(returned.cqmap.data, <<1, 1, 1>>) = 1
    /\ getitem(returned.cqmap.data, <<0, 1, 1>>) = 0

\* the diagrams the two generators have both yielded are the same, and a
\* fresh generator run to its end after a generator run to its end has
\* yielded the same list
SameAgain ==
    call = "again" =>
        /\ \A k \in 1..Min(Len(arg_left), Len(returned)) :
              returned[k] = arg_left[k]
        /\ pc = "done" => Len(returned) >= Len(arg_left)
        /\ pc = "done" /\ arg_right = <<"done">> => returned = arg_left

\* a step of the generators leaves d alone and keeps the diagrams yielded
\* so far, adding at most the one it yields
KeepsYielded ==
    Running /\ Running' =>
        /\ self' = self
        /\ \/ returned' = returned
           \/ returned' = Append(returned, diagram')
           \/ call = "none" /\ call' = "again" /\ arg_left' = returned

PosIn(w, wire) ==
    IF \E p \in 1..Len(w) : w[p] = wire
    THEN (CHOOSE p \in 1..Len(w) : w[p] = wire) - 1
    ELSE -1

\* the numbers of a set in increasing order
RECURSIVE Ascending(_)
Ascending(S) ==
    IF S = {} THEN <<>>
    ELSE LET least == CHOOSE x \in S : \A y \in S : x <= y
         IN <<least>> \o Ascending(S \ {least})

\* where the output wire at offset j of layer i goes, told from the wires of
\* the scan types: the first layer after which the wire is gone, or
\* len(d); the position of the wire just above it; the layers in between
\* that start at or left of the position the wire has above them, and the
\* others
FollowedWire(d, i, j) ==
    LET wire == <<i, j - d.offsets[i + 1]>>
        at(k) == PosIn(Wires(d, k), wire)
        gone == {k \in (i + 1)..(DLen(d) - 1) : PosIn(Wires(d, k + 1), wire) = -1}
        stop == IF gone = {} THEN DLen(d)
                ELSE CHOOSE k \in gone : \A k2 \in gone : k <= k2
        between == (i + 1)..(stop - 1)
        lefts == {k \in between : d.offsets[k + 1] <= at(k)}
    IN [i |-> stop, j |-> at(stop),
        left_obstruction |-> Ascending(lefts),
        right_obstruction |-> Ascending(between \ lefts)]

OutputWires(d, i) ==
    d.offsets[i + 1]..(d.offsets[i + 1] + Len(d.boxes[i + 1].cod) - 1)

\* C27: follow_wire from an output wire of layer i returns the first later
\* layer that takes the wire and the position the wire has there, or
\* len(diagram) and its position in the codomain; every layer passed is
\* listed once, in order, on the left when it starts at or left of the wire
\* and on the right otherwise, and the offset follows the wire
C27_FollowWire ==
    pc = "find" =>
        \A i \in 0..(DLen(diagram) - 1) :
            \A j \in OutputWires(diagram, i) :
                follow_wire(diagram, i, j) = FollowedWire(diagram, i, j)

\* a wire with layers on both sides, shifted by one on its left before a
\* layer takes it
C27_Witness ==
    /\ pc = "find"
    /\ \E i \in 0..(DLen(diagram) - 1) :
          \E j \in OutputWires(diagram, i) :
              LET fw == follow_wire(diagram, i, j)
              IN /\ fw.i < DLen(diagram)
                 /\ fw.left_obstruction # <<>>
                 /\ fw.right_obstruction # <<>>
                 /\ fw.j # j
                 /\ fw = FollowedWire(diagram, i, j)

\* layer c is a Cap, the later layer q is a Cup, and the left wire of the
\* Cap is the right leg of the Cup (a left snake) or the right wire of the
\* Cap is the left leg of the Cup (a right snake)
Joins(d, c, q, is_left_snake) ==
    /\ IsCap(d.boxes[c + 1])
    /\ IsCup(d.boxes[q + 1])
    /\ c < q
    /\ LET above == Wires(d, q)
           off == d.offsets[q + 1]
       IN IF is_left_snake THEN above[off + 2] = <<c, 0>>
                           ELSE above[off + 1] = <<c, 1>>

JoinsSome(d, c, is_left_snake) ==
    \E q \in (c + 1)..(DLen(d) - 1) : Joins(d, c, q, is_left_snake)

\* C28: the pair find_snake returns is a Cap and a later Cup joined by the
\* wire of the snake it reports, arriving at the offset of the right leg for
\* a left snake and of the left leg for a right snake; no Cap before it is
\* joined to a Cup by either of its wires, and a right snake is returned
\* only when the left wire of that Cap joins no Cup
C28_FindSnake ==
    pc = "find" =>
        LET found == find_snake(diagram)
        IN found.found =>
            /\ Joins(diagram, found.cap, found.cup, found.left_snake)
            /\ follow_wire(diagram, found.cap,
                           diagram.offsets[found.cap + 1]
                               + (IF found.left_snake THEN 0 ELSE 1)).j
                  = diagram.offsets[found.cup + 1]
                      + (IF found.left_snake THEN 1 ELSE 0)
            /\ \A c \in 0..(found.cap - 1) :
                  /\ ~JoinsSome(diagram, c, TRUE)
                  /\ ~JoinsSome(diagram, c, FALSE)
            /\ ~found.left_snake => ~JoinsSome(diagram, found.cap, TRUE)

\* a right snake found at a Cap with a Cap before it
C28_Witness ==
    /\ pc = "find"
    /\ LET found == find_snake(diagram)
       IN /\ found.found
          /\ ~found.left_snake
          /\ \E c \in 0..(found.cap - 1) : IsCap(diagram.boxes[c + 1])
          /\ Joins(diagram, found.cap, found.cup, found.left_snake)

\* the list without x
Without(names, x) == SelectSeq(names, LAMBDA y : y # x)

\* the list with x taken out and put back just before y, or just after y
PutBefore(names, x, y) ==
    LET rest == Without(names, x)
        at == CHOOSE p \in 1..Len(rest) : rest[p] = y
    IN SubSeq(rest, 1, at - 1) \o <<x>> \o SubSeq(rest, at, Len(rest))

PutAfter(names, x, y) ==
    LET rest == Without(names, x)
        at == CHOOSE p \in 1..Len(rest) : rest[p] = y
    IN SubSeq(rest, 1, at) \o <<x>> \o SubSeq(rest, at + 1, Len(rest))

\* the layers of a diagram in which find_snake found the snake `found`,
\* named by their index there, in the order they have after k moves: for a
\* left snake the left obstructions, nearest to the Cap first, go just above
\* the Cap, then the right obstructions, nearest to the Cup first, go just
\* below the Cup; for a right snake the left obstructions, nearest to the
\* Cup first, go just below the Cup, then the right obstructions, nearest to
\* the Cap first, go just above the Cap
RECURSIVE OrderAfter(_, _, _)
OrderAfter(len, found, k) ==
    IF k = 0 THEN [p \in 1..len |-> p - 1]
    ELSE LET before == OrderAfter(len, found, k - 1)
             lo == found.left_obstruction
             ro == found.right_obstruction
         IN IF found.left_snake
            THEN IF k <= Len(lo)
                 THEN PutBefore(before, lo[k], found.cap)
                 ELSE PutAfter(before, Reverse(ro)[k - Len(lo)], found.cup)
            ELSE IF k <= Len(lo)
                 THEN PutAfter(before, Reverse(lo)[k], found.cup)
                 ELSE PutBefore(before, ro[k - Len(lo)], found.cap)

\* the generators of d in the given order of its layers
Reordered(d, order) == [p \in 1..Len(order) |-> d.boxes[order[p] + 1]]

\* the diagram handed to the caller at position k, self at position 0
HandedAt(k) == IF k = 0 THEN self ELSE returned[k]

\* the elimination under way, or the one that has just ended with its
\* splice, has handed over `moves` diagrams since the diagram at position
\* `base`, in which the snake was found
EliminationFrom(base, moves, spliced) ==
    LET start == HandedAt(base)
        found == find_snake(start)
        total == Len(found.left_obstruction) + Len(found.right_obstruction)
    IN /\ found.found
       /\ found.left_snake = left_snake
       /\ moves <= total
       /\ \A k \in 1..moves :
             /\ DLen(returned[base + k]) = DLen(start)
             /\ returned[base + k].boxes
                   = Reordered(start, OrderAfter(DLen(start), found, k))
       /\ spliced =>
             /\ moves = total
             /\ Len(returned) = base + total + 1
             /\ DLen(returned[base + total + 1]) = DLen(start) - 2

\* C29: the elimination of a snake with L left and R right obstructions
\* does not fail and hands over L + R + 1 diagrams: one per left obstruction, then one per
\* right obstruction, then the spliced diagram; for a left snake the left
\* obstructions go above the Cap, nearest to the Cap first, and the right
\* obstructions below the Cup, nearest to the Cup first; for a right snake
\* the left obstructions go below the Cup and the right ones above the Cap
C29_UnsnakeOrder ==
    /\ pc # "error"
    /\ pc = "unsnake" =>
          /\ Len(returned) >= n_done
          /\ EliminationFrom(Len(returned) - n_done, n_done, FALSE)
          /\ diagram = HandedAt(Len(returned))
    /\ pc = "find" /\ n_elim > 0 =>
          /\ Len(returned) >= n_done + 1
          /\ EliminationFrom(Len(returned) - n_done - 1, n_done, TRUE)

\* a right snake with obstructions on both sides, a right one below a left
\* one, has just been spliced out
C29_Witness ==
    /\ pc = "find"
    /\ n_elim > 0
    /\ ~left_snake
    /\ \E a \in 1..Len(left_obstruction), b \in 1..Len(right_obstruction) :
          right_obstruction[b] >= left_obstruction[a]
    /\ Len(returned) = n_done + 1
    /\ EliminationFrom(0, n_done, TRUE)

\* the list without its elements at the indices i and i + 1, counted from 0
WithoutPair(layers, i) == Slice(layers, 0, i) \o SliceFrom(layers, i + 2)

\* C30: when unsnake has moved every obstruction the Cap and the Cup are
\* layers cap and cap + 1, and the diagram it then yields is the one before
\* it without these two layers: two layers, one Cap and one Cup fewer, the
\* other generators and their offsets kept in order
C30_Splice ==
    /\ pc = "unsnake"
       /\ n_done = Len(left_obstruction) + Len(right_obstruction) =>
          /\ cup = cap + 1
          /\ IsCap(diagram.boxes[cap + 1])
          /\ IsCup(diagram.boxes[cup + 1])
    /\ pc = "find" /\ n_elim > 0 =>
          LET before == HandedAt(Len(returned) - 1)
          IN /\ diagram = returned[Len(returned)]
             /\ cup = cap + 1
             /\ IsCap(before.boxes[cap + 1])
             /\ IsCup(before.boxes[cup + 1])
             /\ DLen(diagram) = DLen(before) - 2
             /\ NCap(diagram) = NCap(before) - 1
             /\ NCup(diagram) = NCup(before) - 1
             /\ diagram.boxes = WithoutPair(before.boxes, cap)
             /\ diagram.offsets = WithoutPair(before.offsets, cap)
             /\ diagram.dom = before.dom
             /\ diagram.cod = before.cod

\* a left snake whose Cap and Cup both had to move has just been spliced
\* out, with layers left above and below it
C30_Witness ==
    /\ pc = "find"
    /\ n_elim > 0
    /\ left_snake
    /\ left_obstruction # <<>>
    /\ right_obstruction # <<>>
    /\ cap > 0
    /\ cup < DLen(HandedAt(Len(returned) - 1)) - 1
    /\ diagram.boxes = WithoutPair(HandedAt(Len(returned) - 1).boxes, cap)

\* C21: for a single dimension d, CQMap.measure(Dim(d)) >> CQMap.discard(C(Dim(d)))
\* equals CQMap.discard(Q(Dim(d))): summing the delta over the classical
\* index leaves one exactly where the bra and the ket index agree
C21_MeasureThenDiscard ==
    \A d \in 2..MaxDim :
        (/\ call = "CQMap.then"
         /\ returned.f = measure(<<d>>, TRUE)
         /\ returned.g = discard(C(<<d>>)))
            => /\ ~Raised(returned.then)
               /\ CQMap_eq(returned.then, discard(Q(<<d>>)))
               /\ \A i \in 0..(d - 1), j \in 0..(d - 1) :
                    getitem(returned.then.data, <<i, j>>) = int(i = j)

C21_Witness ==
    /\ call = "CQMap.then"
    /\ returned.f = measure(<<MaxDim>>, TRUE)
    /\ returned.g = discard(C(<<MaxDim>>))
    /\ ~Raised(returned.then)

\* C26: f.then(g) raises unless f.cod == g.dom as classical-quantum types,
\* and a composite that is returned has dom f.dom and cod g.cod
C26_ThenChecksTypes ==
    call = "CQMap.then"
        => /\ returned.f.cod # returned.g.dom => Raised(returned.then)
           /\ ~Raised(returned.then)
                => /\ returned.then.dom = returned.f.dom
                   /\ returned.then.cod = returned.g.cod

\* the k-th run of an index cut into runs of the given lengths
chunk(index, lengths, k) ==
    LET start == sum(Slice(lengths, 0, k - 1))
    IN Slice(index, start, start + lengths[k])

\* an index of f @ g is cut into the legs (c_f, c_g, q_f, q_g, q_f', q_g') of
\* the dom and of the cod; the odd runs are the index of f, the even ones
\* the index of g
EntryOfTensor(map, other, index) ==
    LET lengths ==
            <<Len(map.dom.classical), Len(other.dom.classical),
              Len(map.dom.quantum), Len(other.dom.quantum),
              Len(map.dom.quantum), Len(other.dom.quantum),
              Len(map.cod.classical), Len(other.cod.classical),
              Len(map.cod.quantum), Len(other.cod.quantum),
              Len(map.cod.quantum), Len(other.cod.quantum)>>
        run(k) == chunk(index, lengths, k)
    IN getitem(map.data,
               run(1) \o run(3) \o run(5) \o run(7) \o run(9) \o run(11))
       * getitem(other.data,
                 run(2) \o run(4) \o run(6) \o run(8) \o run(10) \o run(12))

\* C22: f @ g has dom CQ(f.dom.classical @ g.dom.classical,
\* f.dom.quantum @ g.dom.quantum) and the analogous cod; the permutation
\* above carries (c_f, c_g, q_f, q_g, q_f', q_g') to (c_f, q_f, q_f', c_g,
\* q_g, q_g') with every wire at its own place in f.dom or g.dom, the
\* permutation below brings every wire back to the place it left from, and
\* so every entry of f @ g is the product of the entries of f and of g
C22_TensorLegs ==
    call = "CQMap.tensor"
        => LET map == returned.f
               other == returned.g
               above == returned.permute_above
               below == returned.permute_below
               result == returned.tensor
           IN /\ result.dom = CQ(map.dom.classical \o other.dom.classical,
                                 map.dom.quantum \o other.dom.quantum)
              /\ result.cod = CQ(map.cod.classical \o other.cod.classical,
                                 map.cod.quantum \o other.cod.quantum)
              /\ obs(above.dom) = <<"c00", "c01", "q00", "q01", "q00", "q01">>
              /\ above.cod = f_dom \o g_dom
              /\ below.dom = f_cod \o g_cod
              /\ obs(below.cod) = <<"c10", "c11", "q10", "q11", "q10", "q11">>
              /\ \A p \in 1..6 : below.cod[p].at = above.dom[p].at
              /\ \A p \in 1..Len(result.array) :
                    result.array[p]
                        = EntryOfTensor(map, other,
                                        unravel(result.data.shape, p - 1))

C22_Witness ==
    /\ call = "CQMap.tensor"
    /\ returned.f = measure(<<2>>, FALSE)
    /\ returned.g = discard(CQ(<<3>>, <<2>>))
    /\ returned.tensor.dom = CQ(<<3>>, <<2, 2>>)
    /\ returned.tensor.cod = CQ(<<2>>, <<2>>)
    /\ Len(returned.tensor.array) = 32 * 12

\* the image of a type of bits and qubits: C(2) for every bit, Q(2) for
\* every qubit
ImageOfWires(ty) ==
    CQ([k \in 1..Cardinality({j \in 1..Len(ty) : ty[j].name = "bit"}) |-> 2],
       [k \in 1..Cardinality({j \in 1..Len(ty) : ty[j].name = "qubit"}) |-> 2])

\* C23: mixed evaluation replaces every generator, of every kind and with
\* every combination of flags, by a CQMap from the image of its dom to the
\* image of its cod, and never raises
C23_EvalOfGenerators ==
    call = "Circuit.eval"
        => /\ ~Raised(returned.image)
           /\ returned.image.dom = ImageOfWires(returned.box.dom)
           /\ returned.image.cod = ImageOfWires(returned.box.cod)

\* the generators of single wires whose flags add no wire on the side
\* mixed evaluation takes the image of
OneWireEach(box) ==
    \/ box.class = "Swap"
    \/ box.class = "Discard" /\ Len(box.dom) = 1
    \/ box.class = "MixedState" /\ Len(box.cod) = 1
    \/ /\ box.class = "Measure"
       /\ box.attrs.n_qubits = 1
       /\ ~box.attrs.override_bits
    \/ /\ box.class = "Encode"
       /\ box.attrs.n_bits = 1
       /\ box.attrs.constructive
       /\ ~box.attrs.reset_bits
    \/ /\ box.class \in {"QGate", "CGate"}
       /\ Len(box.dom) = 1
       /\ Len(box.cod) = 1

\* what mixed evaluation does: the generators of OneWireEach get a CQMap
\* from the image of the dom to the image of the cod
C23_EvalOfOneWire ==
    (call = "Circuit.eval" /\ OneWireEach(returned.box))
        => /\ ~Raised(returned.image)
           /\ returned.image.dom = ImageOfWires(returned.box.dom)
           /\ returned.image.cod = ImageOfWires(returned.box.cod)

\* the wires of a circuit after its first k layers
RECURSIVE WiresOfCircuit(_, _)
WiresOfCircuit(circuit, k) ==
    IF k = 0 THEN circuit.dom
    ELSE LET before == WiresOfCircuit(circuit, k - 1)
             off == circuit.offsets[k]
         IN SubSeq(before, 1, off) \o circuit.boxes[k].cod
                \o SubSeq(before, off + Len(circuit.boxes[k].dom) + 1,
                          Len(before))

HasBoth(ty) ==
    /\ \E k \in 1..Len(ty) : ty[k].name = "bit"
    /\ \E k \in 1..Len(ty) : ty[k].name = "qubit"

\* the dom, or the codomain of some layer, holds a bit and a qubit
CombinesSomewhere(circuit) ==
    \E k \in 0..DLen(circuit) : HasBoth(WiresOfCircuit(circuit, k))

MixedGenerator(box) ==
    \/ box.class \in {"Discard", "MixedState", "Measure", "Encode"}
    \/ box.class = "Swap" /\ box.attrs.left # box.attrs.right

SingleKind(circuit) ==
    \E name \in {"bit", "qubit"} :
        \A k \in 0..DLen(circuit) :
            \A p \in 1..Len(WiresOfCircuit(circuit, k)) :
                WiresOfCircuit(circuit, k)[p].name = name

\* C24: is_mixed is true exactly when the dom or the codomain of some layer
\* holds both a bit and a qubit, or some box is a Discard, MixedState,
\* Measure, Encode or a Swap of two different types; a circuit of unmixed
\* boxes on wires of a single kind is not mixed
C24_IsMixed ==
    call = "Circuit.is_mixed"
        => LET circuit == returned.circuit
               some_mixed ==
                   \E k \in 1..DLen(circuit) : MixedGenerator(circuit.boxes[k])
           IN /\ returned.is_mixed
                    <=> (CombinesSomewhere(circuit) \/ some_mixed)
              /\ (SingleKind(circuit) /\ ~some_mixed) => ~returned.is_mixed

\* a circuit of unmixed boxes from a qubit to a qubit that holds a bit in
\* between is mixed
C24_Witness ==
    /\ call = "Circuit.is_mixed"
    /\ ~returned.is_box
    /\ DLen(returned.circuit) = 2
    /\ ~HasBoth(returned.circuit.dom)
    /\ ~HasBoth(returned.circuit.cod)
    /\ HasBoth(WiresOfCircuit(returned.circuit, 1))
    /\ \A k \in 1..2 : ~MixedGenerator(returned.circuit.boxes[k])
    /\ returned.is_mixed

============================================================================
